---------------------------- MODULE Spec2Model ----------------------------
(***************************************************************************)
(* A model of the CDCL solver of rsat (src/src/cdcl/solver.rs) over the    *)
(* clause database keyed by learnt ids (src/src/msat/clause_db.rs), the    *)
(* variable manager (src/src/cdcl/var_manager.rs), the trail               *)
(* (src/src/cdcl/trail.rs) and the DRAT recorder                           *)
(* (src/src/cdcl/drat_clauses.rs).                                         *)
(*                                                                         *)
(* Conventions.  Rust vectors are 0-based, TLA+ sequences 1-based: element *)
(* i of a vector is element i+1 of the sequence.  A literal is the number  *)
(* 2*var + sign, a variable a number in 0 .. n-1.  A ClauseIndex is a      *)
(* record [t |-> "Orig" | "Lrnt", i |-> index or id]; Option::None is      *)
(* NoClause.  A Rust panic (unwrap of None, index out of range, usize      *)
(* underflow) sets the field panic of the solver record; the process then  *)
(* stops (pc = "panic").                                                   *)
(***************************************************************************)
EXTENDS Integers, Sequences, FiniteSets, TLC

(***************************************************************************)
(* Bounds of the model.                                                    *)
(***************************************************************************)
MaxVars == 3
MaxAdds == 3
MaxSolves == 2
MaxAssumps == 1
MaxRestarts == 0

(***************************************************************************)
(* Option values the solver is constructed with (SolverOptions).  The      *)
(* decays are powers of two so that every f64 operation on activities is   *)
(* exact and is an integer operation here.                                 *)
(***************************************************************************)
OptClaInc == 1
OptClaDecayRecip == 2
OptVarInc == 1
OptVarDecayRecip == 2

(***************************************************************************)
(* Literal / variable primitives (common.rs).                              *)
(***************************************************************************)
\* The placeholder Lit(usize::MAX): a number that is no literal of the model
UNDEF_LIT == -1

LitNew(v, s) == v + v + (IF s THEN 1 ELSE 0)
LitVar(l) == l \div 2
LitSign(l) == l % 2 = 1
LitNot(l) == IF l % 2 = 0 THEN l + 1 ELSE l - 1

LBoolNot(b) ==
  CASE b = "True" -> "False"
    [] b = "False" -> "True"
    [] OTHER -> "Undef"

LBoolFrom(b) == IF b THEN "True" ELSE "False"

NoClause == [t |-> "None", i |-> 0]
Orig(i) == [t |-> "Orig", i |-> i]
Lrnt(i) == [t |-> "Lrnt", i |-> i]

Lits(n) == 0 .. (2 * n - 1)

(***************************************************************************)
(* Sequence helpers standing for Vec operations.                           *)
(***************************************************************************)
Last(s) == s[Len(s)]
Front(s) == SubSeq(s, 1, Len(s) - 1)
Swap(s, i, j) == [s EXCEPT ![i] = s[j], ![j] = s[i]]
RemoveAt(s, i) == SubSeq(s, 1, i - 1) \o SubSeq(s, i + 1, Len(s))
Range(s) == {s[i] : i \in 1 .. Len(s)}

\* F applied to the values of its arguments: as in a Rust call, an argument
\* is computed once, before the body runs
Apply(F(_), x) == CHOOSE r \in {F(v) : v \in {x}} : TRUE
Apply2(F(_, _), x, y) == CHOOSE r \in {F(v, w) : v \in {x}, w \in {y}} : TRUE
Apply3(F(_, _, _), x, y, z) ==
  CHOOSE r \in {F(u, v, w) : u \in {x}, v \in {y}, w \in {z}} : TRUE

\* Vec::sort_by on literal indices: insertion of each element in order
RECURSIVE InsertSorted(_, _)
InsertSorted(s, x) ==
  IF s = <<>> THEN <<x>>
  ELSE IF x < Head(s) THEN <<x>> \o s
  ELSE <<Head(s)>> \o InsertSorted(Tail(s), x)

RECURSIVE SortLits(_)
SortLits(s) == IF s = <<>> THEN <<>> ELSE InsertSorted(SortLits(Front(s)), Last(s))

\* Vec::dedup: removes consecutive repeated elements
RECURSIVE Dedup(_)
Dedup(s) ==
  IF Len(s) <= 1 THEN s
  ELSE IF s[1] = s[2] THEN Dedup(Tail(s))
  ELSE <<s[1]>> \o Dedup(Tail(s))

(***************************************************************************)
(* The state.  The first eight variables are the fields of Solver.         *)
(***************************************************************************)
VARIABLES
  undef_state,   \* Solver::undef_state
  clause_db,     \* ClauseDb: original, learnts, curr_learnt_id, cla_inc
  var_manager,   \* VarManager: assigns, reason, level, stats
  watches,       \* Vec<Vec<ClauseIndex>>, indexed by literal
  prop_q,        \* VecDeque<Lit>
  trail,         \* Trail: trail, trail_lim
  root_level,    \* Solver::root_level
  drat_clauses,  \* DratClauses: drat_clauses, capture_drat
  pc,            \* where the caller or the running solve call stands
  loc,           \* locals of the running solve_ / search call
  result,        \* the Solution returned by the last finished solve call
  hist,          \* record of the calls made so far (history)
  lim            \* the inputs the caller draws from: the clause menu and the
                 \* numbers of add_clause calls, solve calls and assumptions

vars == <<undef_state, clause_db, var_manager, watches, prop_q, trail,
          root_level, drat_clauses, pc, loc, result, hist, lim>>

solverVars == <<undef_state, clause_db, var_manager, watches, prop_q, trail,
                root_level, drat_clauses>>

\* The Solver value as one record, for the operators below.
Cur ==
  [undef_state |-> undef_state, clause_db |-> clause_db,
   var_manager |-> var_manager, watches |-> watches, prop_q |-> prop_q,
   trail |-> trail, root_level |-> root_level, drat_clauses |-> drat_clauses,
   panic |-> FALSE]

Install(S) ==
  /\ undef_state' = S.undef_state
  /\ clause_db' = S.clause_db
  /\ var_manager' = S.var_manager
  /\ watches' = S.watches
  /\ prop_q' = S.prop_q
  /\ trail' = S.trail
  /\ root_level' = S.root_level
  /\ drat_clauses' = S.drat_clauses

Panic(S) == [S EXCEPT !.panic = TRUE]

(***************************************************************************)
(* Accessors (solver.rs 39-67, var_manager.rs, trail.rs, clause_db.rs).    *)
(***************************************************************************)
n_vars(S) == Len(S.var_manager.assigns)
n_assigns(S) == Len(S.trail.trail)
n_clauses(S) == Len(S.clause_db.original)
n_learnts(S) == Cardinality(DOMAIN S.clause_db.learnts)
decision_level(S) == Len(S.trail.trail_lim)

value(S, x) == S.var_manager.assigns[x + 1]

\* A faulty value_lit: the sign of the literal is not looked at
value_lit_unsigned(S, p) == S.var_manager.assigns[LitVar(p) + 1]

value_lit(S, p) ==
  IF LitSign(p) THEN LBoolNot(S.var_manager.assigns[LitVar(p) + 1])
  ELSE S.var_manager.assigns[LitVar(p) + 1]
get_level(S, x) == S.var_manager.level[x + 1]
get_reason(S, x) == S.var_manager.reason[x + 1]

\* ClauseDb::get_clause_ref is defined for a stored clause only
HasClause(S, ci) ==
  \/ ci.t = "Orig" /\ ci.i + 1 \in 1 .. Len(S.clause_db.original)
  \/ ci.t = "Lrnt" /\ ci.i \in DOMAIN S.clause_db.learnts

get_clause_lits(S, ci) ==
  IF ci.t = "Orig" THEN S.clause_db.original[ci.i + 1]
  ELSE S.clause_db.learnts[ci.i].lits

set_clause_lits(S, ci, lits) ==
  IF ci.t = "Orig" THEN [S EXCEPT !.clause_db.original[ci.i + 1] = lits]
  ELSE [S EXCEPT !.clause_db.learnts[ci.i].lits = lits]

push_watch(S, l, ci) == [S EXCEPT !.watches[l + 1] = Append(@, ci)]

(***************************************************************************)
(* Variable manager (cdcl/var_manager.rs).  stats.bh is "Vsids" or "Lrb".  *)
(* The LRB averages ema and the step size alpha are f64 in the code; here  *)
(* they are fixed-point numbers in millionths, rounded down.               *)
(***************************************************************************)
Micro == 1000000
AlphaInitMicro == 400000
AlphaFloorMicro == 60000
EmaDecayPercent == 95

\* floor(m * e / Micro) for 0 <= m <= Micro, 0 <= e <= 2 * Micro, in 32 bits
MulMicro(m, e) ==
  LET eh == e \div 1000
      el == e % 1000
      q1 == (m * eh) \div 1000
      r1 == (m * eh) % 1000
  IN  q1 + ((r1 * Micro + m * el) \div Micro)

VarManagerNew(bh) ==
  [assigns |-> <<>>, reason |-> <<>>, level |-> <<>>,
   stats |-> [bh |-> bh, activity |-> <<>>, var_inc |-> OptVarInc,
              alpha |-> AlphaInitMicro, learnt_counter |-> 0, ema |-> <<>>,
              assigned |-> <<>>, participated |-> <<>>, reasoned |-> <<>>]]

VarManager_new_var(vm) ==
  [vm EXCEPT
     !.reason = Append(@, NoClause),
     !.assigns = Append(@, "Undef"),
     !.level = Append(@, -1),
     !.stats = IF @.bh = "Vsids"
               THEN [@ EXCEPT !.activity = Append(@, 0)]
               ELSE [@ EXCEPT !.ema = Append(@, 0),
                              !.assigned = Append(@, 0),
                              !.participated = Append(@, 0),
                              !.reasoned = Append(@, 0)]]

\* A faulty bookkeeping: an assignment leaves the counts of the variable
LrbOnUpdate_keeping_counts(st, v, val) ==
  IF val # "Undef"
  THEN [st EXCEPT !.assigned[v + 1] = st.learnt_counter]
  ELSE LET interval == st.learnt_counter - st.assigned[v + 1]
       IN  IF interval > 0
           THEN [st EXCEPT !.ema[v + 1] =
                   MulMicro(Micro - st.alpha, @)
                   + ((st.alpha * (st.participated[v + 1] + st.reasoned[v + 1]))
                        \div interval)]
           ELSE st

\* VarManager::update: LRB bookkeeping, then value, level and reason
LrbOnUpdate(st, v, val) ==
  IF val # "Undef"
  THEN [st EXCEPT !.assigned[v + 1] = st.learnt_counter,
                  !.participated[v + 1] = 0,
                  !.reasoned[v + 1] = 0]
  ELSE LET interval == st.learnt_counter - st.assigned[v + 1]
       IN  IF interval > 0
           THEN [st EXCEPT !.ema[v + 1] =
                   MulMicro(Micro - st.alpha, @)
                   + ((st.alpha * (st.participated[v + 1] + st.reasoned[v + 1]))
                        \div interval)]
           ELSE st

\* usize subtraction learnt_counter - assigned[var] below zero
LrbUnderflow(st, v, val) ==
  st.bh = "Lrb" /\ val = "Undef" /\ st.learnt_counter < st.assigned[v + 1]

update(S, v, val, lvl, rsn) ==
  [S EXCEPT
     !.var_manager.stats = IF @.bh = "Lrb" /\ ~LrbUnderflow(@, v, val)
                           THEN LrbOnUpdate(@, v, val) ELSE @,
     !.var_manager.assigns[v + 1] = val,
     !.var_manager.level[v + 1] = lvl,
     !.var_manager.reason[v + 1] = rsn,
     !.panic = @ \/ LrbUnderflow(S.var_manager.stats, v, val)]

\* A faulty reset: the level of the variable is left as it was
reset_keeping_level(S, v) == update(S, v, "Undef", get_level(S, v), NoClause)

\* VarManager::reset (var_manager.rs 212-214)
reset(S, v) == update(S, v, "Undef", -1, NoClause)

\* A faulty model: an entry tells whether the variable is False
model_of_false(S) == [i \in 1 .. n_vars(S) |-> S.var_manager.assigns[i] = "False"]

model(S) == [i \in 1 .. n_vars(S) |-> S.var_manager.assigns[i] = "True"]

\* Iterator::max_by keeps the last of several equally maximal elements
RECURSIVE MaxBy(_, _, _)
MaxBy(score, cands, best) ==
  IF cands = <<>> THEN best
  ELSE MaxBy(score, Tail(cands),
             IF best = -1 \/ score[Head(cands) + 1] >= score[best + 1]
             THEN Head(cands) ELSE best)

UnassignedVars(S) ==
  SelectSeq([i \in 1 .. n_vars(S) |-> i - 1], LAMBDA v : value(S, v) = "Undef")

\* VarManager::select_var; -1 stands for the unwrap of None
select_var(S) ==
  LET st == S.var_manager.stats
  IN  MaxBy(IF st.bh = "Vsids" THEN st.activity ELSE st.ema,
            UnassignedVars(S), -1)

\* VarManager::after_learnt_clause (the rescale above 1e100 is out of reach
\* of the bounded counters)
RECURSIVE BumpVars(_, _)
BumpVars(st, ps) ==
  IF ps = <<>> THEN st
  ELSE BumpVars([st EXCEPT !.activity[LitVar(Head(ps)) + 1] = @ + st.var_inc],
                Tail(ps))

after_learnt_clause(S, ps) ==
  IF S.var_manager.stats.bh = "Vsids"
  THEN [S EXCEPT !.var_manager.stats = BumpVars(@, ps)]
  ELSE S

VarManager_after_record_learnt_clause(S) ==
  IF S.var_manager.stats.bh = "Vsids"
  THEN [S EXCEPT !.var_manager.stats.var_inc = @ * OptVarDecayRecip]
  ELSE S

RECURSIVE IncrAt(_, _)
IncrAt(cnt, vs) ==
  IF vs = <<>> THEN cnt
  ELSE IncrAt([cnt EXCEPT ![Head(vs) + 1] = @ + 1], Tail(vs))

\* VarManager::after_conflict_analysis; reasoned is a set of variables
after_conflict_analysis(S, participating, reasonedVars) ==
  LET st == S.var_manager.stats
  IN  IF st.bh = "Vsids" THEN S
      ELSE [S EXCEPT !.var_manager.stats =
              [st EXCEPT
                 !.learnt_counter = @ + 1,
                 !.participated = IncrAt(@, participating),
                 !.alpha = IF @ > AlphaFloorMicro THEN @ - 1 ELSE @,
                 !.reasoned = [i \in DOMAIN @ |->
                                 IF (i - 1) \in reasonedVars THEN @[i] + 1 ELSE @[i]],
                 !.ema = [i \in DOMAIN @ |->
                            IF S.var_manager.assigns[i] = "Undef"
                            THEN (@[i] * EmaDecayPercent) \div 100 ELSE @[i]]]]

(***************************************************************************)
(* DRAT recorder (cdcl/drat_clauses.rs).                                   *)
(***************************************************************************)
capture(S, lits, is_delete) ==
  IF S.drat_clauses.capture_drat
  THEN [S EXCEPT !.drat_clauses.drat_clauses =
          Append(@, [kind |-> IF is_delete THEN "Delete" ELSE "Add", lits |-> lits])]
  ELSE S

\* DratClauses::drat_clauses, reached through Solver::drat_clauses
\* (solver.rs 90-92): Some(log) with capture enabled, None without
Solver_drat_clauses(S) ==
  IF S.drat_clauses.capture_drat
  THEN [some |-> TRUE, log |-> S.drat_clauses.drat_clauses]
  ELSE [some |-> FALSE, log |-> <<>>]

(***************************************************************************)
(* Clause database (msat/clause_db.rs).  An activity is a sum of values of *)
(* cla_inc.  The field cla_decay holds 1.0 / options.cla_decay, a whole     *)
(* number for the option values used here.  The rescaling of activities    *)
(* above 1e100 is out of reach of the runs modelled and is left out.       *)
(***************************************************************************)
ClauseDbNew(cla_inc, cla_decay) ==
  [original |-> <<>>, learnts |-> <<>>, curr_learnt_id |-> 0,
   cla_inc |-> cla_inc, cla_decay |-> cla_decay]

found_clause_as_reason(S, ci) ==
  IF ci.t = "Lrnt"
  THEN IF ci.i \in DOMAIN S.clause_db.learnts
       THEN [S EXCEPT !.clause_db.learnts[ci.i].act = @ + S.clause_db.cla_inc]
       ELSE Panic(S)
  ELSE S

ClauseDb_after_record_learnt_clause(S) ==
  [S EXCEPT !.clause_db.cla_inc = @ * S.clause_db.cla_decay]

\* ClauseDb::add_original / add_learnt: the new reference and the new solver
add_original(S, lits) ==
  [S EXCEPT !.clause_db.original = Append(@, lits)]

\* A faulty add_learnt: the counter of ids is not advanced
add_learnt_same_id(S, lits) ==
  found_clause_as_reason(
    [S EXCEPT !.clause_db.learnts =
                (S.clause_db.curr_learnt_id :> [lits |-> lits, act |-> 0]) @@ @],
    Lrnt(S.clause_db.curr_learnt_id))

add_learnt(S, lits) ==
  found_clause_as_reason(
    [S EXCEPT !.clause_db.learnts =
                (S.clause_db.curr_learnt_id :> [lits |-> lits, act |-> 0]) @@ @,
              !.clause_db.curr_learnt_id = @ + 1],
    Lrnt(S.clause_db.curr_learnt_id))

(***************************************************************************)
(* Solver::enqueue (solver.rs 266-276).  A result is [ok, S].              *)
(***************************************************************************)
\* A faulty enqueue: a literal that is already true is reported as a conflict
enqueue_rejecting_true(S, p, from) ==
  IF value_lit(S, p) # "Undef"
  THEN [ok |-> FALSE, S |-> S]
  ELSE [ok |-> TRUE,
        S |-> [update(S, LitVar(p), LBoolFrom(~LitSign(p)), decision_level(S), from)
                 EXCEPT !.trail.trail = Append(@, p), !.prop_q = Append(@, p)]]

\* A faulty enqueue: a False literal is made True
enqueue_overwriting(S, p, from) ==
  IF value_lit(S, p) = "True"
  THEN [ok |-> TRUE, S |-> S]
  ELSE [ok |-> TRUE,
        S |-> [update(S, LitVar(p), LBoolFrom(~LitSign(p)), decision_level(S), from)
                 EXCEPT !.trail.trail = Append(@, p), !.prop_q = Append(@, p)]]

enqueue(S, p, from) ==
  IF value_lit(S, p) # "Undef"
  THEN [ok |-> value_lit(S, p) # "False", S |-> S]
  ELSE [ok |-> TRUE,
        S |-> [update(S, LitVar(p), LBoolFrom(~LitSign(p)), decision_level(S), from)
                 EXCEPT !.trail.trail = Append(@, p), !.prop_q = Append(@, p)]]

(***************************************************************************)
(* Solver::clause_new (solver.rs 165-232).  A result is [ok, ci, S].       *)
(***************************************************************************)
HasComplementaryNeighbours(ps) ==
  \E i \in 2 .. Len(ps) : ps[i - 1] = LitNot(ps[i])

\* A faulty choice of the second watch: the literal at position 1 as it is
MaxLevelIndex_unmoved(S, ps, i, max_i) == 1

\* Index (0-based) of the first literal of highest decision level
RECURSIVE MaxLevelIndex(_, _, _, _)
MaxLevelIndex(S, ps, i, max_i) ==
  IF i >= Len(ps) THEN max_i
  ELSE MaxLevelIndex(S, ps, i + 1,
         IF get_level(S, LitVar(ps[i + 1])) > get_level(S, LitVar(ps[max_i + 1]))
         THEN i ELSE max_i)

clause_new_store(S, ps0, learnt) ==
  IF ps0 = <<>> THEN [ok |-> FALSE, ci |-> NoClause, S |-> S]
  ELSE IF Len(ps0) = 1
  THEN LET Unit(e) == [ok |-> e.ok, ci |-> NoClause, S |-> e.S]
       IN  Apply(Unit, enqueue(S, ps0[1], NoClause))
  ELSE
    LET Store(ps, ci) ==
          [ok |-> TRUE, ci |-> ci,
           S |-> push_watch(
                   push_watch(IF learnt THEN add_learnt(after_learnt_clause(S, ps), ps)
                              ELSE add_original(S, ps),
                              LitNot(ps[1]), ci),
                   LitNot(ps[2]), ci)]
    IN  Apply2(Store,
               IF learnt THEN Swap(ps0, 2, MaxLevelIndex(S, ps0, 0, 0) + 1) ELSE ps0,
               IF learnt THEN Lrnt(S.clause_db.curr_learnt_id)
               ELSE Orig(Len(S.clause_db.original)))

\* A faulty normalisation: a tautology is not recognised
clause_normalise_keeping_tautologies(S, ps) ==
  IF \E i \in 1 .. Len(ps) : value_lit(S, ps[i]) = "True"
  THEN [done |-> TRUE, ps |-> <<>>]
  ELSE [done |-> FALSE,
        ps |-> SelectSeq(Dedup(SortLits(ps)), LAMBDA l : value_lit(S, l) = "Undef")]

\* A faulty normalisation: the literals that are false are kept
clause_normalise_keeping_false(S, ps) ==
  LET Sorted(sorted) ==
        IF HasComplementaryNeighbours(sorted) THEN [done |-> TRUE, ps |-> <<>>]
        ELSE [done |-> FALSE, ps |-> sorted]
  IN  IF \E i \in 1 .. Len(ps) : value_lit(S, ps[i]) = "True"
      THEN [done |-> TRUE, ps |-> <<>>]
      ELSE Apply(Sorted, Dedup(SortLits(ps)))

\* solver.rs 166-191: what add_clause makes of its literals before storing
\* them; done when a literal is true or the clause is a tautology
clause_normalise(S, ps) ==
  LET Sorted(sorted) ==
        IF HasComplementaryNeighbours(sorted) THEN [done |-> TRUE, ps |-> <<>>]
        ELSE [done |-> FALSE,
              ps |-> SelectSeq(sorted, LAMBDA l : value_lit(S, l) = "Undef")]
  IN  IF \E i \in 1 .. Len(ps) : value_lit(S, ps[i]) = "True"
      THEN [done |-> TRUE, ps |-> <<>>]
      ELSE Apply(Sorted, Dedup(SortLits(ps)))

clause_new(S, ps, learnt) ==
  LET Store(n) == IF n.done THEN [ok |-> TRUE, ci |-> NoClause, S |-> S]
                  ELSE clause_new_store(S, n.ps, learnt)
  IN  Apply(Store,
            IF learnt THEN [done |-> FALSE, ps |-> ps] ELSE clause_normalise(S, ps))

(***************************************************************************)
(* Solver::clause_propagate (solver.rs 95-128).  A result is [ok, S].      *)
(***************************************************************************)
\* A faulty search for a new watch: the literal at position 2 is taken
\* whatever its value
FindNewWatch_unchecked(S, lits, i) == IF i >= Len(lits) THEN -1 ELSE i

\* 0-based index of the first literal at position >= 2 that is not False; -1 if none
RECURSIVE FindNewWatch(_, _, _)
FindNewWatch(S, lits, i) ==
  IF i >= Len(lits) THEN -1
  ELSE IF value_lit(S, lits[i + 1]) # "False" THEN i
  ELSE FindNewWatch(S, lits, i + 1)

\* A faulty clause_propagate: the new watch is copied to position 1 and the
\* false literal is not written back in its place
clause_propagate_losing(S, ci, p) ==
  LET Found(S1, lits1, i) ==
        IF value_lit(S1, lits1[1]) = "True"
        THEN [ok |-> TRUE, S |-> push_watch(S1, p, ci)]
        ELSE IF i >= 0
        THEN [ok |-> TRUE,
              S |-> push_watch(
                      set_clause_lits(
                        S1, ci, [lits1 EXCEPT ![2] = lits1[i + 1]]),
                      LitNot(lits1[i + 1]), ci)]
        ELSE enqueue(push_watch(S1, p, ci), lits1[1], ci)
      Swapped(S1, lits1) == Apply3(Found, S1, lits1, FindNewWatch(S1, lits1, 2))
      First(lits1) == Apply2(Swapped, set_clause_lits(S, ci, lits1), lits1)
      Fetched(lits0) ==
        IF Len(lits0) = 0 \/ (Len(lits0) = 1 /\ lits0[1] = LitNot(p))
        THEN [ok |-> FALSE, S |-> Panic(S)]
        ELSE Apply(First, IF lits0[1] = LitNot(p)
                          THEN [lits0 EXCEPT ![1] = lits0[2], ![2] = LitNot(p)]
                          ELSE lits0)
  IN  IF ~HasClause(S, ci) THEN [ok |-> FALSE, S |-> Panic(S)]
      ELSE Apply(Fetched, get_clause_lits(S, ci))

clause_propagate(S, ci, p) ==
  LET Found(S1, lits1, i) ==
        IF value_lit(S1, lits1[1]) = "True"
        THEN [ok |-> TRUE, S |-> push_watch(S1, p, ci)]
        ELSE IF i >= 0
        THEN [ok |-> TRUE,
              S |-> push_watch(
                      set_clause_lits(
                        S1, ci, [lits1 EXCEPT ![2] = lits1[i + 1], ![i + 1] = LitNot(p)]),
                      LitNot(lits1[i + 1]), ci)]
        ELSE enqueue(push_watch(S1, p, ci), lits1[1], ci)
      Swapped(S1, lits1) == Apply3(Found, S1, lits1, FindNewWatch(S1, lits1, 2))
      First(lits1) == Apply2(Swapped, set_clause_lits(S, ci, lits1), lits1)
      Fetched(lits0) ==
        IF Len(lits0) = 0 \/ (Len(lits0) = 1 /\ lits0[1] = LitNot(p))
        THEN [ok |-> FALSE, S |-> Panic(S)]
        ELSE Apply(First, IF lits0[1] = LitNot(p)
                          THEN [lits0 EXCEPT ![1] = lits0[2], ![2] = LitNot(p)]
                          ELSE lits0)
  IN  IF ~HasClause(S, ci) THEN [ok |-> FALSE, S |-> Panic(S)]
      ELSE Apply(Fetched, get_clause_lits(S, ci))

(***************************************************************************)
(* Solver::propagate (solver.rs 235-264).  A result is [confl, S].         *)
(***************************************************************************)
\* A faulty loop over the snapshot: on a conflict the clauses not yet
\* processed are not put back
RECURSIVE PropagateWatchers_dropping(_, _, _, _)
PropagateWatchers_dropping(S, p, tmp, i) ==
  LET Done(r) ==
        IF r.S.panic THEN [confl |-> NoClause, S |-> r.S]
        ELSE IF ~r.ok
        THEN [confl |-> tmp[i], S |-> [r.S EXCEPT !.prop_q = <<>>]]
        ELSE PropagateWatchers_dropping(r.S, p, tmp, i + 1)
  IN  IF i > Len(tmp) THEN [confl |-> NoClause, S |-> S]
      ELSE Apply(Done, clause_propagate(S, tmp[i], p))

RECURSIVE PropagateWatchers(_, _, _, _)
PropagateWatchers(S, p, tmp, i) ==
  LET Done(r) ==
        IF r.S.panic THEN [confl |-> NoClause, S |-> r.S]
        ELSE IF ~r.ok
        THEN [confl |-> tmp[i],
              S |-> [r.S EXCEPT !.watches[p + 1] = @ \o SubSeq(tmp, i + 1, Len(tmp)),
                                !.prop_q = <<>>]]
        ELSE PropagateWatchers(r.S, p, tmp, i + 1)
  IN  IF i > Len(tmp) THEN [confl |-> NoClause, S |-> S]
      ELSE Apply(Done, clause_propagate(S, tmp[i], p))

\* A faulty propagate: the literal enqueued first is taken first
RECURSIVE propagate_fifo(_)
propagate_fifo(S) ==
  LET Done(r) == IF r.S.panic \/ r.confl # NoClause THEN r ELSE propagate_fifo(r.S)
      Pop(p) == Apply(Done, PropagateWatchers(
                              [S EXCEPT !.prop_q = Tail(@), !.watches[p + 1] = <<>>],
                              p, S.watches[p + 1], 1))
  IN  IF S.prop_q = <<>> THEN [confl |-> NoClause, S |-> S]
      ELSE Apply(Pop, Head(S.prop_q))

RECURSIVE propagate(_)
propagate(S) ==
  LET Done(r) == IF r.S.panic \/ r.confl # NoClause THEN r ELSE propagate(r.S)
      Pop(p) == Apply(Done, PropagateWatchers(
                              [S EXCEPT !.prop_q = Front(@), !.watches[p + 1] = <<>>],
                              p, S.watches[p + 1], 1))
  IN  IF S.prop_q = <<>> THEN [confl |-> NoClause, S |-> S]
      ELSE Apply(Pop, Last(S.prop_q))

(***************************************************************************)
(* Solver::clause_calc_reason (solver.rs 151-163).  A result is            *)
(* [reason, S].  The debug assertions are not executed (release build).    *)
(* p is an Option<Lit>: <<>> or <<l>>.                                     *)
(***************************************************************************)
\* A faulty clause_calc_reason: the last literal of the clause is left out
clause_calc_reason_short(S, ci, p) ==
  LET Reason(lits, from) ==
        [reason |-> [k \in 1 .. (IF Len(lits) - 1 >= from THEN Len(lits) - from ELSE 0)
                       |-> LitNot(lits[k + from - 1])],
         S |-> found_clause_as_reason(S, ci)]
  IN  IF ~HasClause(S, ci) THEN [reason |-> <<>>, S |-> Panic(S)]
      ELSE Apply2(Reason, get_clause_lits(S, ci), IF p = <<>> THEN 1 ELSE 2)

clause_calc_reason(S, ci, p) ==
  LET Reason(lits, from) ==
        [reason |-> [k \in 1 .. (IF Len(lits) >= from THEN Len(lits) - from + 1 ELSE 0)
                       |-> LitNot(lits[k + from - 1])],
         S |-> found_clause_as_reason(S, ci)]
  IN  IF ~HasClause(S, ci) THEN [reason |-> <<>>, S |-> Panic(S)]
      ELSE Apply2(Reason, get_clause_lits(S, ci), IF p = <<>> THEN 1 ELSE 2)

(***************************************************************************)
(* Solver::analyze (solver.rs 278-346).  The loop state A is               *)
(* [S, confl, seen, counter, p, out_learnt, out_btlevel, participating].   *)
(***************************************************************************)
RECURSIVE TraceReason(_, _)
TraceReason(A, qs) ==
  LET Visit(q, v, lv) ==
        IF v \in A.seen THEN TraceReason(A, Tail(qs))
        ELSE Apply2(TraceReason,
               [A EXCEPT
                  !.participating = Append(@, v),
                  !.seen = @ \cup {v},
                  !.counter = IF lv = decision_level(A.S) THEN @ + 1 ELSE @,
                  !.out_learnt = IF lv # decision_level(A.S) /\ lv > 0
                                 THEN Append(@, LitNot(q)) ELSE @,
                  !.out_btlevel = IF lv # decision_level(A.S) /\ lv > 0 /\ lv > @
                                  THEN lv ELSE @],
               Tail(qs))
  IN  IF qs = <<>> THEN A
      ELSE Apply3(Visit, Head(qs), LitVar(Head(qs)), get_level(A.S, LitVar(Head(qs))))

\* A faulty PopToSeen: the trail is emptied whatever has been seen
RECURSIVE PopToSeen_all(_)
PopToSeen_all(A) ==
  LET Done(A1, v) == IF A1.S.panic \/ A1.S.trail.trail = <<>> THEN A1 ELSE PopToSeen_all(A1)
      Pop(pl, v) ==
        Apply2(Done,
               [A EXCEPT !.p = <<pl>>, !.confl = get_reason(A.S, v),
                         !.S = reset([A.S EXCEPT !.trail.trail = Front(@)], v)],
               v)
  IN  IF A.S.trail.trail = <<>> THEN [A EXCEPT !.S = Panic(@)]
      ELSE Apply2(Pop, Last(A.S.trail.trail), LitVar(Last(A.S.trail.trail)))

\* "Select next literal to look at": pop the trail down to a seen variable
RECURSIVE PopToSeen(_)
PopToSeen(A) ==
  LET Done(A1, v) == IF A1.S.panic \/ v \in A.seen THEN A1 ELSE PopToSeen(A1)
      Pop(pl, v) ==
        Apply2(Done,
               [A EXCEPT !.p = <<pl>>, !.confl = get_reason(A.S, v),
                         !.S = reset([A.S EXCEPT !.trail.trail = Front(@)], v)],
               v)
  IN  IF A.S.trail.trail = <<>> THEN [A EXCEPT !.S = Panic(@)]
      ELSE Apply2(Pop, Last(A.S.trail.trail), LitVar(Last(A.S.trail.trail)))

RECURSIVE AnalyzeLoop(_)
AnalyzeLoop(A) ==
  LET Done(A2) ==
        IF A2.S.panic \/ A2.counter - 1 <= 0 THEN [A2 EXCEPT !.counter = @ - 1]
        ELSE Apply(AnalyzeLoop, [A2 EXCEPT !.counter = @ - 1])
      Reasoned(r) ==
        IF r.S.panic THEN [A EXCEPT !.S = r.S]
        ELSE Apply(Done, PopToSeen(Apply2(TraceReason, [A EXCEPT !.S = r.S], r.reason)))
  IN  IF A.confl = NoClause THEN [A EXCEPT !.S = Panic(@)]
      ELSE Apply(Reasoned, clause_calc_reason(A.S, A.confl, A.p))

ReasonVarsOf(S, out_learnt) ==
  UNION {IF get_reason(S, LitVar(out_learnt[k])) = NoClause THEN {}
         ELSE {LitVar(l) : l \in Range(get_clause_lits(S, get_reason(S, LitVar(out_learnt[k]))))}
           : k \in 1 .. Len(out_learnt)}
  \ {LitVar(out_learnt[k]) : k \in 1 .. Len(out_learnt)}

\* A faulty analyze: the backtrack level is left at 0
analyze_without_btlevel(S, cf) ==
  LET Done(A) ==
        IF A.S.panic
        THEN [S |-> A.S, out_learnt |-> A.out_learnt, out_btlevel |-> 0]
        ELSE [S |-> after_conflict_analysis(
                      A.S,
                      IF LitVar(A.p[1]) \in A.seen THEN A.participating
                      ELSE Append(A.participating, LitVar(A.p[1])),
                      ReasonVarsOf(A.S, [A.out_learnt EXCEPT ![1] = LitNot(A.p[1])])),
              out_learnt |-> [A.out_learnt EXCEPT ![1] = LitNot(A.p[1])],
              out_btlevel |-> 0]
  IN  Apply(Done,
            AnalyzeLoop([S |-> S, confl |-> cf, seen |-> {}, counter |-> 0, p |-> <<>>,
                         out_learnt |-> <<UNDEF_LIT>>, out_btlevel |-> 0,
                         participating |-> <<>>]))

\* A result is [S, out_learnt, out_btlevel]
analyze(S, cf) ==
  LET Learnt(A, out) ==
        IF \E k \in 1 .. Len(out) :
             /\ get_reason(A.S, LitVar(out[k])) # NoClause
             /\ ~HasClause(A.S, get_reason(A.S, LitVar(out[k])))
        THEN [S |-> Panic(A.S), out_learnt |-> out, out_btlevel |-> A.out_btlevel]
        ELSE [S |-> after_conflict_analysis(
                      A.S,
                      IF LitVar(out[1]) \in A.seen THEN A.participating
                      ELSE Append(A.participating, LitVar(out[1])),
                      ReasonVarsOf(A.S, out)),
              out_learnt |-> out, out_btlevel |-> A.out_btlevel]
      Done(A) ==
        IF A.S.panic
        THEN [S |-> A.S, out_learnt |-> A.out_learnt, out_btlevel |-> A.out_btlevel]
        ELSE Apply2(Learnt, A, [A.out_learnt EXCEPT ![1] = LitNot(A.p[1])])
  IN  Apply(Done,
            AnalyzeLoop([S |-> S, confl |-> cf, seen |-> {}, counter |-> 0, p |-> <<>>,
                         out_learnt |-> <<UNDEF_LIT>>, out_btlevel |-> 0,
                         participating |-> <<>>]))

(***************************************************************************)
(* Solver::record, assume, cancel, cancel_until (solver.rs 348-374).       *)
(***************************************************************************)
record(S, clause) ==
  LET Stored(c) == enqueue(c.S, clause[1], c.ci).S
  IN  Apply(Stored, clause_new(capture(S, clause, FALSE), clause, TRUE))

\* A faulty assume: the complement of the literal is enqueued
assume_complement(S, p) ==
  enqueue([S EXCEPT !.trail.trail_lim = Append(@, Len(S.trail.trail))], LitNot(p), NoClause)

\* A result is [ok, S]
assume(S, p) == enqueue([S EXCEPT !.trail.trail_lim = Append(@, Len(S.trail.trail))], p, NoClause)

\* A faulty cancel: the boundary is popped, the literals above it stay
cancel_keeping_literals(S) ==
  IF S.trail.trail_lim = <<>> THEN Panic(S)
  ELSE [S EXCEPT !.trail.trail_lim = Front(@)]

RECURSIVE PopAndReset(_, _)
PopAndReset(S, c) ==
  IF c = 0 \/ S.panic THEN S
  ELSE IF S.trail.trail = <<>> THEN Panic(S)
  ELSE Apply2(PopAndReset,
              reset([S EXCEPT !.trail.trail = Front(@)], LitVar(Last(S.trail.trail))),
              c - 1)

cancel(S) ==
  LET Undo(S1, c) == IF c < 0 THEN Panic(S1) ELSE PopAndReset(S1, c)
  IN  IF S.trail.trail_lim = <<>> THEN Panic(S)
      ELSE Apply2(Undo, [S EXCEPT !.trail.trail_lim = Front(@)],
                  Len(S.trail.trail) - Last(S.trail.trail_lim))

\* A faulty cancel_until: it stops one level above the level asked for
RECURSIVE cancel_until_short(_, _)
cancel_until_short(S, lvl) ==
  IF S.panic \/ decision_level(S) <= lvl + 1 THEN S
  ELSE Apply2(cancel_until_short, cancel(S), lvl)

RECURSIVE cancel_until(_, _)
cancel_until(S, lvl) ==
  IF S.panic \/ decision_level(S) <= lvl THEN S
  ELSE Apply2(cancel_until, cancel(S), lvl)

(***************************************************************************)
(* ClauseDb::remove_learnt, is_clause_locked, reduce_db                    *)
(* (msat/clause_db.rs 94-161).  The learnts live in a HashMap: order is    *)
(* the sequence of ids in which an iteration over it visits them.          *)
(***************************************************************************)
\* 1-based position of the first occurrence of x in s, 0 if there is none
RECURSIVE Position(_, _, _)
Position(s, x, i) ==
  IF i > Len(s) THEN 0 ELSE IF s[i] = x THEN i ELSE Position(s, x, i + 1)

RemoveFirst(s, x) ==
  LET At(i) == IF i = 0 THEN s ELSE RemoveAt(s, i) IN Apply(At, Position(s, x, 1))

\* A faulty remove_learnt: the deletion is not captured
remove_learnt_uncaptured(S, index) ==
  LET Remove(lits) ==
        IF Len(lits) < 2 THEN Panic(S)
        ELSE [S EXCEPT
                !.watches =
                  [[@ EXCEPT ![LitNot(lits[1]) + 1] = RemoveFirst(@, Lrnt(index))]
                     EXCEPT ![LitNot(lits[2]) + 1] = RemoveFirst(@, Lrnt(index))],
                !.clause_db.learnts = [j \in (DOMAIN @) \ {index} |-> @[j]]]
  IN  IF S.panic THEN S
      ELSE IF index \notin DOMAIN S.clause_db.learnts THEN Panic(S)
      ELSE Apply(Remove, S.clause_db.learnts[index].lits)

remove_learnt(S, index) ==
  LET Remove(lits) ==
        IF Len(lits) < 2 THEN Panic(S)
        ELSE [capture(S, lits, TRUE) EXCEPT
                !.watches =
                  [[@ EXCEPT ![LitNot(lits[1]) + 1] = RemoveFirst(@, Lrnt(index))]
                     EXCEPT ![LitNot(lits[2]) + 1] = RemoveFirst(@, Lrnt(index))],
                !.clause_db.learnts = [j \in (DOMAIN @) \ {index} |-> @[j]]]
  IN  IF S.panic THEN S
      ELSE IF index \notin DOMAIN S.clause_db.learnts THEN Panic(S)
      ELSE Apply(Remove, S.clause_db.learnts[index].lits)

\* A faulty is_clause_locked: no clause counts as locked
is_clause_locked_never(S, ci) ==
  IF ~HasClause(S, ci) \/ get_clause_lits(S, ci) = <<>> THEN -1 ELSE 0

\* -1: the lookup panics; 0: not locked; 1: locked
is_clause_locked(S, ci) ==
  IF ~HasClause(S, ci) \/ get_clause_lits(S, ci) = <<>> THEN -1
  ELSE IF get_reason(S, LitVar(get_clause_lits(S, ci)[1])) = ci THEN 1 ELSE 0

\* slice::sort_by is stable: equal activities keep the iteration order
RECURSIVE InsertByAct(_, _)
InsertByAct(s, x) ==
  IF s = <<>> THEN <<x>>
  ELSE IF x.act < Head(s).act THEN <<x>> \o s
  ELSE <<Head(s)>> \o InsertByAct(Tail(s), x)

RECURSIVE SortByAct(_)
SortByAct(s) == IF s = <<>> THEN <<>> ELSE InsertByAct(SortByAct(Front(s)), Last(s))

\* first loop: positions i .. acts.len()/2 - 1 (0-based)
RECURSIVE ReduceLower(_, _, _)
ReduceLower(S, acts, i) ==
  LET Visit(lk) ==
        IF lk = -1 THEN Panic(S)
        ELSE Apply3(ReduceLower,
                    IF lk = 0 THEN remove_learnt(S, acts[i + 1].id) ELSE S,
                    acts, i + 1)
  IN  IF S.panic \/ i >= Len(acts) \div 2 THEN S
      ELSE Apply(Visit, is_clause_locked(S, Lrnt(acts[i + 1].id)))

\* second loop: runs while i < self.learnts.len(); act < lim with
\* lim = cla_inc / n is act * n < cla_inc
RECURSIVE ReduceUpper(_, _, _, _)
ReduceUpper(S, acts, i, n) ==
  LET Rest(S1) == ReduceUpper(S1, acts, i + 1, n)
      Visit(lk) ==
        IF lk = -1 THEN Panic(S)
        ELSE Apply(Rest, IF lk = 0 /\ acts[i + 1].act * n < S.clause_db.cla_inc
                         THEN remove_learnt(S, acts[i + 1].id) ELSE S)
  IN  IF S.panic \/ i >= n_learnts(S) THEN S
      ELSE Apply(Visit, is_clause_locked(S, Lrnt(acts[i + 1].id)))

reduce_db(S, order) ==
  LET Sorted(acts) ==
        LET Upper(S1) == ReduceUpper(S1, acts, Len(acts) \div 2, Len(acts))
        IN  Apply(Upper, ReduceLower(S, acts, 0))
  IN  Apply(Sorted, SortByAct([k \in 1 .. Len(order) |->
                          [id |-> order[k], act |-> S.clause_db.learnts[order[k]].act]]))

(***************************************************************************)
(* Solver::clause_simplify, simplify_db (solver.rs 132-149, 435-448).      *)
(***************************************************************************)
\* A result is [sat, S]
clause_simplify(S, ci) ==
  LET Simplify(lits) ==
        IF \E k \in 1 .. Len(lits) : value_lit(S, lits[k]) = "True"
        THEN [sat |-> TRUE, S |-> S]
        ELSE [sat |-> FALSE,
              S |-> set_clause_lits(S, ci,
                      SelectSeq(lits, LAMBDA l : value_lit(S, l) = "Undef"))]
  IN  IF ~HasClause(S, ci) THEN [sat |-> FALSE, S |-> Panic(S)]
      ELSE Apply(Simplify, get_clause_lits(S, ci))

RECURSIVE SimplifyEach(_, _)
SimplifyEach(S, cls) ==
  LET Done(r) ==
        Apply2(SimplifyEach,
               IF r.sat THEN remove_learnt(r.S, Head(cls)) ELSE r.S, Tail(cls))
  IN  IF S.panic \/ cls = <<>> THEN S
      ELSE Apply(Done, clause_simplify(S, Lrnt(Head(cls))))

simplify_db(S, order) ==
  LET Done(r) == IF r.S.panic \/ r.confl # NoClause THEN r.S
                 ELSE SimplifyEach(r.S, order)
  IN  Apply(Done, propagate(S))

\* The orders in which a HashMap iteration can visit the learnt ids.  With
\* lim.orders = "ascending" the one order by ascending id is followed, which
\* keeps a run with many learnt clauses within reach
Orders(S) ==
  LET ids == DOMAIN S.clause_db.learnts
      n == Cardinality(ids)
  IN  IF lim.orders = "ascending"
      THEN {[k \in 1 .. n |-> CHOOSE i \in ids : Cardinality({j \in ids : j < i}) = k - 1]}
      ELSE {f \in [1 .. n -> ids] : \A a, b \in 1 .. n : a # b => f[a] # f[b]}

(***************************************************************************)
(* Restart schedule of solve_ (solver.rs 463-488).                         *)
(***************************************************************************)
RestartFirst == 100
RestartInc == 2

RECURSIVE Pow(_, _)
Pow(b, e) == IF e = 0 THEN 1 ELSE b * Pow(b, e - 1)

\* (rest_base * restart_first) as u32 in restart number k
NofConflicts(k) == Pow(RestartInc, k) * RestartFirst
\* nof_learnts as u32 in restart number k: n_clauses / 3.0 times 1.1^k
NofLearnts(n0, k) == (n0 * Pow(11, k)) \div (3 * Pow(10, k))

(***************************************************************************)
(* Inputs of the public calls.                                             *)
(***************************************************************************)
SeqsUpTo(A, k) == UNION {[1 .. m -> A] : m \in 0 .. k}

\* Clauses given to add_clause: the empty clause, units, a clause with a
\* repeated literal given out of order, a tautology, and binary and ternary
\* clauses that conflict with each other under one or two decisions
ClauseMenu ==
  {<<>>, <<0>>, <<2>>, <<3, 1, 3>>, <<0, 1>>, <<0, 3>>, <<0, 3, 5>>, <<1, 3, 5>>}

\* Four clauses over three variables from which two solve calls learn one
\* clause each (the second under the assumption of literal 3), so that a
\* third call has two learnt clauses to reduce
TieMenu == {<<0, 3, 5>>, <<1, 3, 5>>, <<0, 2, 5>>, <<1, 2, 5>>}
MaxSolvesTie == 3

\* The clauses the caller may pass next: any clause of the menu, or, for a
\* caller that follows a script, the next clause of the script
NextClauses ==
  IF lim.script = <<>> THEN lim.menu
  ELSE IF hist.nAdds < Len(lim.script) THEN {lim.script[hist.nAdds + 1]}
  ELSE {}

ClauseInputs(n) ==
  {ps \in NextClauses : \A i \in 1 .. Len(ps) : ps[i] \in Lits(n)}

AssumpInputs(n) == SeqsUpTo(Lits(n) \cap lim.alits, lim.assumps)

(***************************************************************************)
(* Initial state: Solver::new (solver.rs 24-37) with the given options,    *)
(* and a caller that draws its calls from the given inputs.                *)
(***************************************************************************)
NoLoc == [assumps |-> <<>>, n0 |-> 0, k |-> 0, conflit_count |-> 0,
          confl |-> NoClause, out_learnt |-> <<>>, out_btlevel |-> 0]
NoResult == [kind |-> "None", model |-> <<>>]
NoCall == [assumps |-> <<>>, result |-> NoResult, path |-> "none", stale |-> FALSE]
NoPre == [trail |-> [trail |-> <<>>, trail_lim |-> <<>>], assigns |-> <<>>,
          level |-> <<>>, original |-> <<>>, learnts |-> <<>>,
          curr_learnt_id |-> 0, undef_state |-> FALSE]

DefaultOptions ==
  [bh |-> "Lrb", capture_drat |-> FALSE,
   cla_inc |-> OptClaInc, cla_decay |-> OptClaDecayRecip]

InitWith(options, inputs) ==
  /\ undef_state = FALSE
  /\ clause_db = ClauseDbNew(options.cla_inc, options.cla_decay)
  /\ var_manager = VarManagerNew(options.bh)
  /\ watches = <<>>
  /\ prop_q = <<>>
  /\ trail = [trail |-> <<>>, trail_lim |-> <<>>]
  /\ root_level = 0
  /\ drat_clauses = [drat_clauses |-> <<>>, capture_drat |-> options.capture_drat]
  /\ pc = "idle"
  /\ loc = NoLoc
  /\ result = NoResult
  /\ hist = [nAdds |-> 0, nSolves |-> 0, added |-> {}, everUndef |-> FALSE,
             stale |-> FALSE, touched |-> FALSE, assumps |-> <<>>,
             path |-> "none", pre |-> NoPre, atModel |-> <<>>, prev |-> NoCall]
  /\ lim = inputs

Init ==
  InitWith(DefaultOptions,
           [vars |-> MaxVars, menu |-> ClauseMenu, script |-> <<>>, orders |-> "any", restarts |-> MaxRestarts, adds |-> MaxAdds, solves |-> MaxSolves,
            assumps |-> MaxAssumps, alits |-> Lits(MaxVars)])

\* A solver whose clause activities do not decay (options.cla_decay = 1.0)
InitTie ==
  InitWith([DefaultOptions EXCEPT !.cla_decay = 1],
           [vars |-> MaxVars, menu |-> TieMenu, script |-> <<>>, orders |-> "any", restarts |-> MaxRestarts, adds |-> Cardinality(TieMenu),
            solves |-> MaxSolvesTie, assumps |-> MaxAssumps, alits |-> {3}])

(***************************************************************************)
(* Public calls made while no solve is running.                            *)
(***************************************************************************)
\* Solver::new_var (solver.rs 70-74)
NewVar ==
  /\ pc = "idle"
  /\ Len(var_manager.assigns) < lim.vars
  /\ watches' = watches \o <<(<<>>), (<<>>)>>
  /\ var_manager' = VarManager_new_var(var_manager)
  /\ hist' = [hist EXCEPT !.touched = TRUE]
  /\ UNCHANGED <<undef_state, clause_db, prop_q, trail, root_level, drat_clauses,
                 pc, loc, result, lim>>

\* A faulty add_clause: the outcome of clause_new is dropped
add_clause_unchecked(S, lits) == clause_new(S, lits, FALSE).S

\* Solver::add_clause (solver.rs 82-87)
add_clause(S, lits) ==
  LET Done(r) == IF ~r.ok THEN [r.S EXCEPT !.undef_state = TRUE] ELSE r.S
  IN  Apply(Done, clause_new(S, lits, FALSE))

\* Every literal is false: the clause normalises to the empty clause
AllFalse(lits) == \A i \in 1 .. Len(lits) : value_lit(Cur, lits[i]) = "False"

AddClause(lits) ==
  /\ pc = "idle"
  /\ hist.nAdds < lim.adds
  /\ \E S \in {add_clause(Cur, lits)} : Install(S)
  /\ hist' = [hist EXCEPT !.nAdds = @ + 1, !.added = @ \cup {Range(lits)},
                          !.everUndef = @ \/ AllFalse(lits),
                          !.stale = TRUE, !.touched = TRUE]
  /\ UNCHANGED <<pc, loc, result, lim>>

(***************************************************************************)
(* Solver::solve and solve_ (solver.rs 451-498), one step at a time.       *)
(***************************************************************************)
\* solve_ returns: solve captures the empty clause on Unsat.  atModel is the
\* assignment at the moment search found every variable assigned
Return(S, kind, m, path, atModel) ==
  /\ IF S.panic
     THEN /\ pc' = "panic"
          /\ result' = NoResult
          /\ Install(S)
     ELSE /\ pc' = "idle"
          /\ result' = [kind |-> kind, model |-> m]
          /\ Install(IF kind = "Unsat" THEN capture(S, <<>>, FALSE) ELSE S)
  /\ loc' = NoLoc
  /\ hist' = [hist EXCEPT !.path = path, !.atModel = atModel]
  /\ UNCHANGED lim

Goto(S, next, newloc) ==
  /\ Install(S)
  /\ pc' = IF S.panic THEN "panic" ELSE next
  /\ loc' = IF S.panic THEN NoLoc ELSE newloc
  /\ UNCHANGED <<result, hist, lim>>

SolveBegin(assumps) ==
  /\ pc = "idle"
  /\ hist.nSolves < lim.solves
  /\ hist' = [hist EXCEPT
                !.nSolves = @ + 1, !.assumps = assumps, !.stale = FALSE,
                !.touched = FALSE, !.path = "running", !.atModel = <<>>,
                !.prev = IF hist.nSolves = 0 THEN NoCall
                         ELSE [assumps |-> hist.assumps, result |-> result,
                               path |-> hist.path, stale |-> hist.stale],
                !.pre = [trail |-> trail, assigns |-> var_manager.assigns,
                         level |-> var_manager.level,
                         original |-> clause_db.original,
                         learnts |-> clause_db.learnts,
                         curr_learnt_id |-> clause_db.curr_learnt_id,
                         undef_state |-> undef_state]]
  /\ pc' = "enter"
  /\ loc' = [NoLoc EXCEPT !.assumps = assumps, !.n0 = Len(clause_db.original)]
  /\ result' = NoResult
  /\ UNCHANGED <<solverVars, lim>>

\* solver.rs 460-462
SolveEnter ==
  /\ pc = "enter"
  /\ IF undef_state
     THEN Return(Cur, "Unsat", <<>>, "undef", <<>>)
     ELSE /\ pc' = "assume"
          /\ UNCHANGED <<solverVars, loc, result, hist, lim>>

\* solver.rs 468-475: one round of the loop over the assumptions, and its exit
AssumeStep ==
  /\ pc = "assume"
  /\ IF loc.assumps = <<>>
     THEN Goto([Cur EXCEPT !.root_level = decision_level(Cur)], "propagate", loc)
     ELSE \E a \in {assume(Cur, Head(loc.assumps))} :
          \E r \in {IF a.ok THEN propagate(a.S) ELSE [confl |-> NoClause, S |-> a.S]} :
            IF r.S.panic THEN Goto(r.S, "panic", loc)
            ELSE IF ~a.ok \/ r.confl # NoClause
            THEN \E S \in {cancel_until(r.S, 0)} :
                   Return(S, "Unsat", <<>>, "assume", <<>>)
            ELSE Goto(r.S, "assume", [loc EXCEPT !.assumps = Tail(@)])

\* solver.rs 380: the head of the loop of search.  A solve call is followed
\* up to its restart number lim.restarts + 1 and no further
Propagate ==
  /\ pc = "propagate"
  /\ loc.k <= lim.restarts
  /\ \E r \in {propagate(Cur)} :
       Goto(r.S, IF r.confl # NoClause THEN "conflict" ELSE "noconflict",
            [loc EXCEPT !.confl = r.confl])

\* solver.rs 383-388: a conflict at the root level ends the call,
\* any other conflict is analysed
Conflict ==
  /\ pc = "conflict"
  /\ IF decision_level(Cur) = root_level
     THEN \E S \in {cancel_until(Cur, 0)} : Return(S, "Unsat", <<>>, "search", <<>>)
     ELSE \E a \in {analyze(Cur, loc.confl)} :
            Goto(a.S, "learn",
                 [loc EXCEPT !.conflit_count = @ + 1, !.confl = NoClause,
                             !.out_learnt = a.out_learnt,
                             !.out_btlevel = a.out_btlevel])

\* solver.rs 389-396
Learn ==
  /\ pc = "learn"
  /\ \E S1 \in {cancel_until(Cur, IF loc.out_btlevel > root_level
                                    THEN loc.out_btlevel ELSE root_level)} :
     \E S2 \in {IF S1.panic THEN S1 ELSE record(S1, loc.out_learnt)} :
     \E S3 \in {ClauseDb_after_record_learnt_clause(
                   VarManager_after_record_learnt_clause(S2))} :
       Goto(S3, "propagate", [loc EXCEPT !.out_learnt = <<>>, !.out_btlevel = 0])

\* solver.rs 400-408: what the arm for no conflict can leave behind, one
\* outcome for each order in which the HashMap of learnt clauses is visited
SimplifyOutcomes(S) ==
  IF decision_level(S) = 0 THEN {simplify_db(S, o) : o \in Orders(S)} ELSE {S}

ReduceOutcomes(S, nof_learnts) ==
  IF ~S.panic /\ n_learnts(S) - n_assigns(S) >= nof_learnts
  THEN {reduce_db(S, o) : o \in Orders(S)}
  ELSE {S}

NoConflictOutcomes(S, nof_learnts) ==
  UNION {ReduceOutcomes(S1, nof_learnts) : S1 \in SimplifyOutcomes(S)}

NoConflict ==
  /\ pc = "noconflict"
  /\ \E S2 \in NoConflictOutcomes(Cur, NofLearnts(loc.n0, loc.k)) :
       Goto(S2, "decide", loc)

\* A faulty Decide: with every variable assigned the search goes on
Decide_without_return ==
  /\ pc = "decide"
  /\ IF n_assigns(Cur) = n_vars(Cur) \/ loc.conflit_count >= NofConflicts(loc.k)
     THEN \E S \in {cancel_until(Cur, root_level)} : Goto(S, "propagate", loc)
     ELSE \E v \in {select_var(Cur)} :
            IF v = -1 THEN Goto(Panic(Cur), "panic", loc)
            ELSE \E a \in {assume(Cur, LitNew(v, FALSE))} : Goto(a.S, "propagate", loc)

\* A faulty Decide: the negative literal of the variable is decided
Decide_negative ==
  /\ pc = "decide"
  /\ IF n_assigns(Cur) = n_vars(Cur)
     THEN \E S \in {cancel_until(Cur, 0)} :
            Return(S, "Sat", model(Cur), "search", var_manager.assigns)
     ELSE IF loc.conflit_count >= NofConflicts(loc.k)
     THEN \E S \in {cancel_until(Cur, root_level)} :
            Goto(S, "propagate", [loc EXCEPT !.k = @ + 1, !.conflit_count = 0])
     ELSE \E v \in {select_var(Cur)} :
            IF v = -1 THEN Goto(Panic(Cur), "panic", loc)
            ELSE \E a \in {assume(Cur, LitNew(v, TRUE))} : Goto(a.S, "propagate", loc)

\* A faulty Decide: a restart undoes the assumptions too
Decide_restart_to_zero ==
  /\ pc = "decide"
  /\ IF n_assigns(Cur) = n_vars(Cur)
     THEN \E S \in {cancel_until(Cur, 0)} :
            Return(S, "Sat", model(Cur), "search", var_manager.assigns)
     ELSE IF loc.conflit_count >= NofConflicts(loc.k)
     THEN \E S \in {cancel_until(Cur, 0)} :
            Goto(S, "propagate", [loc EXCEPT !.k = @ + 1, !.conflit_count = 0])
     ELSE \E v \in {select_var(Cur)} :
            IF v = -1 THEN Goto(Panic(Cur), "panic", loc)
            ELSE \E a \in {assume(Cur, LitNew(v, FALSE))} : Goto(a.S, "propagate", loc)

\* solver.rs 410-424 and the loop of solve_ (481-497)
Decide ==
  /\ pc = "decide"
  /\ IF n_assigns(Cur) = n_vars(Cur)
     THEN \* cancel_until(root_level) in search and cancel_until(0) in solve_
          \* undo the same levels one after the other
          \E S \in {cancel_until(Cur, 0)} :
            Return(S, "Sat", model(Cur), "search", var_manager.assigns)
     ELSE IF loc.conflit_count >= NofConflicts(loc.k)
     THEN \E S \in {cancel_until(Cur, root_level)} :
            Goto(S, "propagate", [loc EXCEPT !.k = @ + 1, !.conflit_count = 0])
     ELSE \E v \in {select_var(Cur)} :
            IF v = -1 THEN Goto(Panic(Cur), "panic", loc)
            ELSE \E a \in {assume(Cur, LitNew(v, FALSE))} : Goto(a.S, "propagate", loc)

Next ==
  \/ NewVar
  \/ \E lits \in ClauseInputs(Len(var_manager.assigns)) : AddClause(lits)
  \/ \E assumps \in AssumpInputs(Len(var_manager.assigns)) : SolveBegin(assumps)
  \/ SolveEnter
  \/ AssumeStep
  \/ Propagate
  \/ Conflict
  \/ Learn
  \/ NoConflict
  \/ Decide

Spec == Init /\ [][Next]_vars

\* The run of InitTie: the same calls over a solver without clause decay
SpecTie == InitTie /\ [][Next]_vars

\* Clauses for the runs that watch the DRAT log
DratMenu == {<<>>, <<0>>, <<2>>, <<0, 3>>, <<0, 3, 5>>, <<1, 3, 5>>}

\* Solver::new with options.capture_drat set either way
InitDrat ==
  \E c \in BOOLEAN :
    InitWith([DefaultOptions EXCEPT !.capture_drat = c],
             [vars |-> MaxVars, menu |-> DratMenu, script |-> <<>>, orders |-> "any", restarts |-> MaxRestarts, adds |-> MaxAdds, solves |-> MaxSolves,
              assumps |-> MaxAssumps, alits |-> Lits(MaxVars)])

SpecDrat == InitDrat /\ [][Next]_vars

\* Four variables and four clauses: two from which a solve call learns a
\* clause of three literals, and a binary and a unit clause added afterwards
MaxVarsWatch == 4
MaxSolvesWatch == 3
WatchMenu == {<<0, 3, 5, 7>>, <<1, 3, 5, 7>>, <<5, 7>>, <<4>>}

InitWatch ==
  InitWith(DefaultOptions,
           [vars |-> MaxVarsWatch, menu |-> WatchMenu, script |-> <<>>, orders |-> "any", restarts |-> MaxRestarts, adds |-> Cardinality(WatchMenu),
            solves |-> MaxSolvesWatch, assumps |-> MaxAssumps, alits |-> {2, 6}])

SpecWatch == InitWatch /\ [][Next]_vars

\* The same caller with a solver that captures DRAT events
InitWatchDrat ==
  InitWith([DefaultOptions EXCEPT !.capture_drat = TRUE],
           [vars |-> MaxVarsWatch, menu |-> WatchMenu, script |-> <<>>, orders |-> "any", restarts |-> MaxRestarts, adds |-> Cardinality(WatchMenu),
            solves |-> MaxSolvesWatch, assumps |-> MaxAssumps, alits |-> {2, 6}])

SpecWatchDrat == InitWatchDrat /\ [][Next]_vars

\* Eight variables and six pairs of clauses, passed in this order: a clause
\* and its partner differ in the sign of variable 0 only, so that a solve
\* call that decides variables 7, 6, 5, 4, 3, 2, 1 in turn runs into six
\* conflicts and learns a binary clause from each pair
MaxVarsReduce == 8
ReduceScript ==
  << <<0, 13, 15>>, <<1, 13, 15>>, <<0, 11, 15>>, <<1, 11, 15>>,
     <<0, 9, 15>>, <<1, 9, 15>>, <<0, 7, 15>>, <<1, 7, 15>>,
     <<0, 5, 15>>, <<1, 5, 15>>, <<0, 3, 15>>, <<1, 3, 15>> >>

InitReduce ==
  InitWith(DefaultOptions,
           [vars |-> MaxVarsReduce, menu |-> Range(ReduceScript), script |-> ReduceScript, orders |-> "any", restarts |-> MaxRestarts,
            adds |-> Len(ReduceScript), solves |-> MaxSolves, assumps |-> MaxAssumps,
            alits |-> {12}])

SpecReduce == InitReduce /\ [][Next]_vars

(***************************************************************************)
(* A caller that passes the pigeonhole formula (Pigeons pigeons, Holes     *)
(* holes) and solves it once: the search runs into more conflicts than the *)
(* first restart allows.  Clause activities do not decay, so that cla_inc  *)
(* stays 1.                                                                *)
(***************************************************************************)
Pigeons == 7
Holes == 6

\* The variable "pigeon i sits in hole j"
InHole(i, j) == i * Holes + j

\* Pigeon i sits in some hole
PigeonClause(i) == [k \in 1 .. Holes |-> LitNew(InHole(i, Holes - k), FALSE)]

PigeonPairs == {pr \in (0 .. (Pigeons - 1)) \X (0 .. (Pigeons - 1)) : pr[1] < pr[2]}

PairRank(pr) ==
  Cardinality({q \in PigeonPairs : q[1] < pr[1] \/ (q[1] = pr[1] /\ q[2] < pr[2])})

PairAt(k) == CHOOSE pr \in PigeonPairs : PairRank(pr) = k - 1

\* The two pigeons of pr do not share hole j
HoleClause(j, pr) == <<LitNew(InHole(pr[1], j), TRUE), LitNew(InHole(pr[2], j), TRUE)>>

PigeonScript ==
  LET np == Cardinality(PigeonPairs)
  IN  [k \in 1 .. Pigeons |-> PigeonClause(Pigeons - k)]
      \o [k \in 1 .. (Holes * np) |-> HoleClause((k - 1) \div np, PairAt(((k - 1) % np) + 1))]

InitRestart ==
  InitWith([DefaultOptions EXCEPT !.cla_decay = 1],
           [vars |-> Pigeons * Holes, menu |-> Range(PigeonScript), script |-> PigeonScript,
            orders |-> "ascending", restarts |-> MaxRestarts, adds |-> Len(PigeonScript), solves |-> 1,
            assumps |-> 1, alits |-> {LitNew(InHole(0, 0), FALSE)}])

SpecRestart == InitRestart /\ [][Next]_vars

\* A solve call, once begun, runs on: its steps are the statements of one
\* thread, which is never suspended for good
SolveStep ==
  SolveEnter \/ AssumeStep \/ Propagate \/ Conflict \/ Learn \/ NoConflict \/ Decide

SpecFair == Init /\ [][Next]_vars /\ WF_vars(SolveStep)

(***************************************************************************)
(* What the properties below speak about.                                  *)
(***************************************************************************)
\* Literal l is true under the model m (a vector of booleans)
LitTrueIn(m, l) == LitVar(l) + 1 \in 1 .. Len(m) /\ m[LitVar(l) + 1] # LitSign(l)

\* Assignment m satisfies the clauses (sets of literals) and the assumptions
Satisfies(m, clauses, assumps) ==
  /\ \A c \in clauses : \E l \in c : LitTrueIn(m, l)
  /\ \A i \in 1 .. Len(assumps) : LitTrueIn(m, assumps[i])

Satisfiable(n, clauses, assumps) ==
  \E m \in [1 .. n -> BOOLEAN] : Satisfies(m, clauses, assumps)

\* A solve call has returned and no public call has been made since
Returned == pc = "idle" /\ hist.nSolves > 0 /\ ~hist.touched

\* The call that returned follows another solve call with no add_clause between
BackToBack == Returned /\ hist.nSolves >= 2 /\ ~hist.prev.stale

AssignedVars == {v \in 1 .. Len(var_manager.assigns) : var_manager.assigns[v] # "Undef"}

OriginalSets(original) == [i \in 1 .. Len(original) |-> Range(original[i])]

(***************************************************************************)
(* Contract of solve.                                                      *)
(***************************************************************************)
\* C1: whenever solve returns Sat(model), every clause passed to add_clause
\* so far has a literal that is true under model
C1_Soundness ==
  (Returned /\ result.kind = "Sat")
    => \A c \in hist.added : \E l \in c : LitTrueIn(result.model, l)

\* C2: whenever solve(assumps) returns Unsat, no total assignment satisfies
\* every clause passed to add_clause so far together with every assumption
C2_UnsatCorrect ==
  (Returned /\ result.kind = "Unsat")
    => ~Satisfiable(Len(var_manager.assigns), hist.added, hist.assumps)

\* An Unsat verdict of search, from a root-level conflict, in a call that
\* learnt a clause first
C2_Witness ==
  /\ Returned /\ result.kind = "Unsat" /\ hist.path = "search"
  /\ clause_db.curr_learnt_id > hist.pre.curr_learnt_id

\* C3: two back-to-back solve([]) calls with no add_clause in between return
\* the same verdict
C3_Idempotent ==
  (BackToBack /\ hist.assumps = <<>> /\ hist.prev.assumps = <<>>)
    => result.kind = hist.prev.result.kind

\* C4: if solve([]) returned Sat(m) and no clause was added since, solve([l])
\* for a literal l true under m returns Sat(m') with l true under m'
C4_AssumptionMonotone ==
  (/\ BackToBack
   /\ hist.prev.assumps = <<>>
   /\ hist.prev.result.kind = "Sat"
   /\ Len(hist.assumps) = 1
   /\ LitTrueIn(hist.prev.result.model, hist.assumps[1]))
    => (result.kind = "Sat" /\ LitTrueIn(result.model, hist.assumps[1]))

\* solve([l]) after solve([]) = Sat(m), l a negative literal true under m, and
\* the two models differ
C4_Witness ==
  /\ BackToBack /\ hist.prev.assumps = <<>> /\ hist.prev.result.kind = "Sat"
  /\ Len(hist.assumps) = 1 /\ LitTrueIn(hist.prev.result.model, hist.assumps[1])
  /\ LitSign(hist.assumps[1])
  /\ result.kind = "Sat" /\ result.model # hist.prev.result.model

\* C5: once an add_clause call has normalised to the empty clause, undef_state
\* is set for good, and every later solve call returns Unsat at once, leaving
\* the trail, the assignments and the clause database as they were
C5_KnownUnsatPermanent ==
  /\ hist.everUndef => undef_state
  /\ (Returned /\ hist.everUndef)
       => /\ result.kind = "Unsat"
          /\ hist.path = "undef"
          /\ trail = hist.pre.trail
          /\ var_manager.assigns = hist.pre.assigns
          /\ var_manager.level = hist.pre.level
          /\ clause_db.original = hist.pre.original
          /\ clause_db.learnts = hist.pre.learnts

\* A solve call with an assumption returned Unsat at once on a solver that is
\* known unsatisfiable, holds assignments and got a clause after that
C5_Witness ==
  /\ Returned /\ hist.everUndef /\ hist.path = "undef" /\ result.kind = "Unsat"
  /\ hist.assumps # <<>> /\ trail.trail # <<>> /\ clause_db.original # <<>>

\* C7: when solve returns, on every return path, the decision level is 0,
\* trail_lim is empty, every assigned variable has level 0 and the original
\* clauses are the ones of before the call
C7_ReturnFrame ==
  Returned
    => /\ decision_level(Cur) = 0
       /\ trail.trail_lim = <<>>
       /\ \A v \in AssignedVars : var_manager.level[v] = 0
       /\ OriginalSets(clause_db.original) = OriginalSets(hist.pre.original)

\* A call with an assumption returned Sat, and an assignment of a level
\* above 0 that the model shows has been undone
C7_Witness ==
  /\ Returned /\ result.kind = "Sat" /\ hist.assumps # <<>>
  /\ AssignedVars # {}
  /\ \E v \in 1 .. Len(var_manager.assigns) : var_manager.assigns[v] = "Undef"

\* C8: a returned model has n_vars entries, entry i tells whether variable i
\* was True at the moment every variable was assigned, and every assumption
\* and every literal assigned at level 0 is true under it
C8_ModelShape ==
  (Returned /\ result.kind = "Sat")
    => /\ Len(result.model) = Len(var_manager.assigns)
       /\ Len(hist.atModel) = Len(result.model)
       /\ \A i \in 1 .. Len(result.model) :
            result.model[i] = (hist.atModel[i] = "True")
       /\ \A i \in 1 .. Len(hist.assumps) : LitTrueIn(result.model, hist.assumps[i])
       /\ \A v \in AssignedVars :
            var_manager.level[v] = 0
              => result.model[v] = (var_manager.assigns[v] = "True")

\* A model with a true and a false entry, under an assumption, with a
\* variable assigned at level 0 and a learnt clause in the database
C8_Witness ==
  /\ Returned /\ result.kind = "Sat" /\ hist.assumps # <<>>
  /\ TRUE \in Range(result.model) /\ FALSE \in Range(result.model)
  /\ \E v \in AssignedVars : var_manager.level[v] = 0
  /\ clause_db.curr_learnt_id > 0

\* C9: after solve(assumps) returned Unsat because an assumption failed, every
\* assignment of a level above 0 is undone, no learnt clause was added and
\* undef_state is not set; a following solve([]) returns the verdict of the
\* formula without assumptions
C9_FailedAssumptionNotPermanent ==
  /\ (Returned /\ hist.path = "assume")
       => /\ result.kind = "Unsat"
          /\ \A v \in AssignedVars : var_manager.level[v] = 0
          /\ trail.trail_lim = <<>>
          /\ clause_db.curr_learnt_id = hist.pre.curr_learnt_id
          /\ DOMAIN clause_db.learnts = DOMAIN hist.pre.learnts
          /\ ~undef_state
  /\ (BackToBack /\ hist.prev.path = "assume" /\ hist.assumps = <<>>)
       => (result.kind = "Sat")
            = Satisfiable(Len(var_manager.assigns), hist.added, <<>>)

\* C10: the same options and the same calls give the same decisions, learnt
\* clauses, deletions and Solution: no step has more than one outcome, whatever
\* the order in which the learnt clauses are visited
C10_Deterministic ==
  pc = "noconflict"
    => Cardinality(NoConflictOutcomes(Cur, NofLearnts(loc.n0, loc.k))) = 1

DratLog == drat_clauses.drat_clauses

\* The events a step appends to the log
DratAppended == SubSeq(DratLog', Len(DratLog) + 1, Len(DratLog'))

\* The ids of the learnt clauses a step deletes
DeletedIds == (DOMAIN clause_db.learnts) \ (DOMAIN clause_db.learnts')

\* evs holds one Delete event for each deleted learnt clause, and nothing else
DeletesOf(evs, ids) ==
  \E f \in [1 .. Len(evs) -> ids] :
    /\ \A i, j \in 1 .. Len(evs) : i # j => f[i] # f[j]
    /\ \A id \in ids : \E i \in 1 .. Len(evs) : f[i] = id
    /\ \A i \in 1 .. Len(evs) :
         evs[i] = [kind |-> "Delete", lits |-> clause_db.learnts[f[i]].lits]

\* C11: with DRAT capture enabled the log only grows at its end; the step
\* that records a learnt clause (a unit clause too) appends exactly one Add
\* event with the literals of that clause, the step that deletes learnt
\* clauses (reduce_db, simplify_db) appends exactly one Delete event for
\* each deleted clause, and the only other event is the empty clause solve
\* adds when it returns Unsat; with capture disabled the log stays empty and
\* drat_clauses() returns None
C11_Step ==
  /\ drat_clauses'.capture_drat = drat_clauses.capture_drat
  /\ Len(DratLog') >= Len(DratLog)
  /\ SubSeq(DratLog', 1, Len(DratLog)) = DratLog
  /\ ~drat_clauses.capture_drat =>
       /\ DratLog' = <<>>
       /\ ~Solver_drat_clauses(Cur').some
  /\ (drat_clauses.capture_drat /\ pc' # "panic") =>
       /\ Solver_drat_clauses(Cur') = [some |-> TRUE, log |-> DratLog']
       /\ IF pc = "learn"
          THEN /\ DratAppended = <<[kind |-> "Add", lits |-> loc.out_learnt]>>
               /\ DeletedIds = {}
          ELSE IF pc = "noconflict"
          THEN DeletesOf(DratAppended, DeletedIds)
          ELSE /\ DeletedIds = {}
               /\ DOMAIN clause_db.learnts' = DOMAIN clause_db.learnts
               /\ IF pc' = "idle" /\ pc # "idle" /\ result'.kind = "Unsat"
                  THEN DratAppended = <<[kind |-> "Add", lits |-> <<>>]>>
                  ELSE DratAppended = <<>>

C11_DratLogInOrder == [][C11_Step]_vars

\* A learnt clause of two or more literals was added and deleted again, and
\* a learnt unit clause was added
C11_Witness ==
  /\ drat_clauses.capture_drat
  /\ \E i, j, k \in 1 .. Len(DratLog) :
       /\ i < j
       /\ DratLog[i].kind = "Add" /\ Len(DratLog[i].lits) >= 2
       /\ DratLog[j] = [kind |-> "Delete", lits |-> DratLog[j].lits]
       /\ Range(DratLog[j].lits) = Range(DratLog[i].lits)
       /\ DratLog[k].kind = "Add" /\ Len(DratLog[k].lits) = 1

\* An empty-clause event: the Add of a clause without literals
IsEmptyClauseEvent(ev) == ev.lits = <<>>

\* C12: with DRAT capture enabled, when a solve call has returned Sat the
\* log holds no empty-clause event, and when it has returned Unsat the last
\* event of the log is the Add of the empty clause
C12_DratVerdict ==
  (Returned /\ drat_clauses.capture_drat) =>
    /\ result.kind = "Sat" =>
         \A i \in 1 .. Len(DratLog) : ~IsEmptyClauseEvent(DratLog[i])
    /\ result.kind = "Unsat" =>
         /\ DratLog # <<>>
         /\ Last(DratLog) = [kind |-> "Add", lits |-> <<>>]

\* The part of C12 about a call that returns Unsat
C12_UnsatEndsLog ==
  (Returned /\ drat_clauses.capture_drat /\ result.kind = "Unsat") =>
    /\ DratLog # <<>>
    /\ Last(DratLog) = [kind |-> "Add", lits |-> <<>>]

\* The part of C12 about a call that returns Sat, for a solver on which no
\* earlier call returned Unsat
C12_SatFirstVerdict ==
  (Returned /\ drat_clauses.capture_drat /\ result.kind = "Sat"
     /\ (hist.nSolves >= 2 => hist.prev.result.kind = "Sat")) =>
    \A i \in 1 .. Len(DratLog) : ~IsEmptyClauseEvent(DratLog[i])

(***************************************************************************)
(* add_clause of a clause that is true already.                            *)
(***************************************************************************)
\* The clause holds a literal and its complement
Tautological(lits) == \E l \in Range(lits) : LitNot(l) \in Range(lits)

\* The clause holds a literal that is True now
HoldsTrueLit(lits) == \E l \in Range(lits) : value_lit(Cur, l) = "True"

\* C13: an add_clause call whose clause is a tautology, or holds a literal
\* that is True at the call, leaves every field of the solver as it was: no
\* clause stored, no watch registered, nothing enqueued, undef_state not set
C13_Step ==
  \A lits \in ClauseInputs(Len(var_manager.assigns)) :
    (AddClause(lits) /\ (Tautological(lits) \/ HoldsTrueLit(lits))) =>
      UNCHANGED solverVars

C13_TrueClauseFrame == [][C13_Step]_vars

\* Three add_clause calls have returned, one of a unit clause, one of a
\* tautology and one of a longer clause holding the literal of the unit:
\* nothing but the unit literal is in the solver
C13_Witness ==
  /\ pc = "idle" /\ hist.nSolves = 0 /\ hist.nAdds = 3
  /\ n_assigns(Cur) = 1
  /\ \E taut, sat \in hist.added :
       /\ \E l \in taut : LitNot(l) \in taut
       /\ Cardinality(sat) >= 2
       /\ \A l \in sat : LitNot(l) \notin sat
       /\ trail.trail[1] \in sat
       /\ hist.added = {taut, sat, {trail.trail[1]}}
  /\ clause_db.original = <<>>
  /\ \A i \in 1 .. Len(watches) : watches[i] = <<>>
  /\ prop_q = <<trail.trail[1]>>
  /\ ~undef_state

(***************************************************************************)
(* Reasons.                                                                *)
(***************************************************************************)
\* The clause lits can stand as the reason of variable v: its first literal
\* is the true literal of v, every other literal is false and was assigned
\* no later than v
ReasonOk(v, lits) ==
  /\ lits # <<>>
  /\ LitVar(lits[1]) = v
  /\ value_lit(Cur, lits[1]) = "True"
  /\ \A i \in 2 .. Len(lits) :
       /\ value_lit(Cur, lits[i]) = "False"
       /\ get_level(Cur, LitVar(lits[i])) <= get_level(Cur, v)

\* The assigned variables whose reason is Some(ci)
ReasonedVars ==
  {v \in 0 .. n_vars(Cur) - 1 :
     value(Cur, v) # "Undef" /\ get_reason(Cur, v) # NoClause}

\* C14: in every reachable state, the reason of an assigned variable v is a
\* clause of the database whose first literal is the literal of v and is
\* True, and whose other literals are False at levels no higher than that
\* of v
C14_ReasonInvariant ==
  \A v \in ReasonedVars :
    /\ HasClause(Cur, get_reason(Cur, v))
    /\ ReasonOk(v, get_clause_lits(Cur, get_reason(Cur, v)))

\* The same for the reasons that name a clause still in the database
C14_ResolvedReasons ==
  \A v \in ReasonedVars :
    HasClause(Cur, get_reason(Cur, v)) =>
      ReasonOk(v, get_clause_lits(Cur, get_reason(Cur, v)))

(***************************************************************************)
(* Propagation.                                                            *)
(***************************************************************************)
\* The clauses of the database, original and learnt
StoredClauses ==
  {Orig(i - 1) : i \in 1 .. Len(clause_db.original)}
    \cup {Lrnt(i) : i \in DOMAIN clause_db.learnts}

\* The positions of clause ci whose literal has value b
PositionsOf(ci, b) ==
  {i \in 1 .. Len(get_clause_lits(Cur, ci)) :
     value_lit(Cur, get_clause_lits(Cur, ci)[i]) = b}

\* propagate has just returned None: in search (solver.rs 380-399), or after
\* an assumption in solve_ (solver.rs 470)
PropagateReturnedNone ==
  \/ pc = "noconflict"
  \/ pc = "assume" /\ Len(loc.assumps) < Len(hist.assumps)

\* C15: whenever propagate has returned no conflict, the propagation queue
\* is empty, no stored clause has all its literals False, and no stored
\* clause has exactly one Undef literal with all others False
C15_PropagationComplete ==
  PropagateReturnedNone =>
    /\ prop_q = <<>>
    /\ \A ci \in StoredClauses :
         /\ PositionsOf(ci, "False") # DOMAIN get_clause_lits(Cur, ci)
         /\ ~(/\ Cardinality(PositionsOf(ci, "Undef")) = 1
              /\ PositionsOf(ci, "True") = {})

\* The part of C15 about the queue
C15_QueueEmpty == PropagateReturnedNone => prop_q = <<>>

(***************************************************************************)
(* Watched literals.                                                       *)
(***************************************************************************)
\* The value of the literal at position i (from 1) of clause ci
LitValueAt(ci, i) == value_lit(Cur, get_clause_lits(Cur, ci)[i])

\* No literal of clause ci past the two watched ones is Undef or True
RestFalse(ci) ==
  \A i \in 3 .. Len(get_clause_lits(Cur, ci)) : LitValueAt(ci, i) = "False"

\* The stored clauses of two or more literals
WatchedClauses == {ci \in StoredClauses : Len(get_clause_lits(Cur, ci)) >= 2}

Occurrences(l, ci) ==
  Cardinality({k \in 1 .. Len(watches[l + 1]) : watches[l + 1][k] = ci})

\* C17: in every state between two calls of propagate, and after every
\* public call, a stored clause of two or more literals occurs exactly once
\* in the watch list of the complement of lits[0], exactly once in that of
\* the complement of lits[1] and in no other watch list, and every entry of
\* a watch list names a clause of the database
C17_WatchLists ==
  pc # "panic" =>
    /\ \A ci \in WatchedClauses : \A l \in Lits(n_vars(Cur)) :
         Occurrences(l, ci) =
           IF l \in {LitNot(get_clause_lits(Cur, ci)[1]),
                     LitNot(get_clause_lits(Cur, ci)[2])}
           THEN 1 ELSE 0
    /\ \A l \in Lits(n_vars(Cur)) : \A k \in 1 .. Len(watches[l + 1]) :
         HasClause(Cur, watches[l + 1][k])


(***************************************************************************)
(* Conflict analysis.                                                      *)
(***************************************************************************)
\* The highest of the levels that the literals of lits have now, 0 if none
MaxLevelOf(lits) ==
  IF lits = <<>> THEN 0
  ELSE CHOOSE m \in {get_level(Cur, LitVar(lits[i])) : i \in 1 .. Len(lits)} :
         \A i \in 1 .. Len(lits) : get_level(Cur, LitVar(lits[i])) <= m

\* out_learnt and out_btlevel are what analyze may return for a conflict
\* found in the present state
AssertingClause(out_learnt, out_btlevel) ==
  /\ out_learnt # <<>>
  /\ \A i \in 1 .. Len(out_learnt) : out_learnt[i] # UNDEF_LIT
  /\ value_lit(Cur, LitNot(out_learnt[1])) = "True"
  /\ get_level(Cur, LitVar(out_learnt[1])) = decision_level(Cur)
  /\ \A i \in 2 .. Len(out_learnt) :
       /\ value_lit(Cur, out_learnt[i]) = "False"
       /\ get_level(Cur, LitVar(out_learnt[i])) > 0
       /\ get_level(Cur, LitVar(out_learnt[i])) < decision_level(Cur)
  /\ \A i, j \in 1 .. Len(out_learnt) :
       i # j => LitVar(out_learnt[i]) # LitVar(out_learnt[j])
  /\ out_btlevel = MaxLevelOf(Tail(out_learnt))

\* C18: for a conflict at a level d above the root level, analyze returns a
\* clause whose first literal is the complement of a literal assigned at
\* level d and is its only literal of level d, whose other literals were
\* False at levels strictly between 0 and d, with no variable twice and no
\* placeholder left, and out_btlevel is the highest level of the other
\* literals, 0 if there is none
C18_Step ==
  (pc = "conflict" /\ pc' = "learn") =>
    /\ decision_level(Cur) > root_level
    /\ AssertingClause(loc'.out_learnt, loc'.out_btlevel)

C18_AssertingClause == [][C18_Step]_vars

\* analyze has returned a clause of three literals whose other literals are
\* of two different levels
C18_Witness ==
  /\ pc = "learn"
  /\ Len(loc.out_learnt) = 3
  /\ get_level(Cur, LitVar(loc.out_learnt[2])) # get_level(Cur, LitVar(loc.out_learnt[3]))
  /\ loc.out_btlevel = 2


(***************************************************************************)
(* Soundness of learning.                                                  *)
(***************************************************************************)
\* Every assignment that satisfies the clauses passed to add_clause makes a
\* literal of c true
Implied(c) ==
  \A m \in [1 .. n_vars(Cur) -> BOOLEAN] :
    Satisfies(m, hist.added, <<>>) => \E l \in c : LitTrueIn(m, l)

\* The literals that are true at level 0 without a reason
Level0Facts ==
  {l \in Lits(n_vars(Cur)) :
     /\ value_lit(Cur, l) = "True"
     /\ get_level(Cur, LitVar(l)) = 0
     /\ get_reason(Cur, LitVar(l)) = NoClause}

\* C19: every learnt clause of the database, and every literal enqueued at
\* level 0 without a reason, is a logical consequence of the clauses passed
\* to add_clause, also when learnt in a solve call with assumptions
C19_LearningSound ==
  pc # "panic" =>
    /\ \A i \in DOMAIN clause_db.learnts : Implied(Range(clause_db.learnts[i].lits))
    /\ \A l \in Level0Facts : Implied({l})

\* A solve call with an assumption has returned; it learnt a clause that
\* is still in the database, and a literal is true at level 0 without reason
C19_Witness ==
  /\ Returned /\ hist.assumps # <<>>
  /\ \E i \in DOMAIN clause_db.learnts : i >= hist.pre.curr_learnt_id
  /\ Level0Facts # {}


(***************************************************************************)
(* The state after a conflict has been handled.                            *)
(***************************************************************************)
\* The value, after the step, of literal l
ValueAfter(l) == value_lit(Cur', l)

\* The level, after the step, of the variable of literal l
LevelAfter(l) == get_level(Cur', LitVar(l))

\* The learnt clause the step stores, under the next free id
NewLearnt == clause_db'.learnts[clause_db.curr_learnt_id].lits

\* C20: after search has handled a conflict (analyze, cancel_until to the
\* higher of out_btlevel and root_level, record), out_learnt[0] is True at
\* the current decision level; a unit clause leaves it without reason and
\* stores nothing; a longer clause is stored with the same literals, is the
\* reason of out_learnt[0], keeps it at position 0, has every other literal
\* False, and holds at position 1 a literal of the highest level among them
C20_Step ==
  (pc = "learn" /\ pc' = "propagate") =>
    /\ decision_level(Cur') =
         IF loc.out_btlevel > root_level THEN loc.out_btlevel ELSE root_level
    /\ ValueAfter(loc.out_learnt[1]) = "True"
    /\ LevelAfter(loc.out_learnt[1]) = decision_level(Cur')
    /\ prop_q' = <<loc.out_learnt[1]>>
    /\ IF Len(loc.out_learnt) = 1
       THEN /\ get_reason(Cur', LitVar(loc.out_learnt[1])) = NoClause
            /\ clause_db'.learnts = clause_db.learnts
       ELSE /\ DOMAIN clause_db'.learnts =
                 DOMAIN clause_db.learnts \cup {clause_db.curr_learnt_id}
            /\ get_reason(Cur', LitVar(loc.out_learnt[1])) = Lrnt(clause_db.curr_learnt_id)
            /\ Range(NewLearnt) = Range(loc.out_learnt)
            /\ Len(NewLearnt) = Len(loc.out_learnt)
            /\ NewLearnt[1] = loc.out_learnt[1]
            /\ \A i \in 2 .. Len(NewLearnt) :
                 /\ ValueAfter(NewLearnt[i]) = "False"
                 /\ LevelAfter(NewLearnt[i]) <= LevelAfter(NewLearnt[2])

C20_AfterConflict == [][C20_Step]_vars

\* A clause of three literals has just been recorded under an assumption:
\* it is the reason of its first literal, which waits in the queue, and its
\* literal at position 1 is of a higher level than the one at position 2
C20_Witness ==
  /\ pc = "propagate" /\ root_level = 1
  /\ clause_db.curr_learnt_id - 1 \in DOMAIN clause_db.learnts
  /\ \E lits \in {clause_db.learnts[i].lits : i \in {clause_db.curr_learnt_id - 1}} :
       /\ Len(lits) = 3
       /\ prop_q = <<lits[1]>>
       /\ get_reason(Cur, LitVar(lits[1])) = Lrnt(clause_db.curr_learnt_id - 1)
       /\ get_level(Cur, LitVar(lits[2])) > get_level(Cur, LitVar(lits[3]))


(***************************************************************************)
(* reduce_db.                                                              *)
(***************************************************************************)
\* The states in which search calls reduce_db (solver.rs 404-408): the
\* states simplify_db can leave behind in the arm for no conflict, when
\* there are enough learnt clauses
ReduceEntries ==
  IF pc # "noconflict" THEN {}
  ELSE {S \in SimplifyOutcomes(Cur) :
          ~S.panic /\ n_learnts(S) - n_assigns(S) >= NofLearnts(loc.n0, loc.k)}

\* The ids of the learnt clauses of S that are locked
LockedIds(S) ==
  {i \in DOMAIN S.clause_db.learnts :
     /\ S.clause_db.learnts[i].lits # <<>>
     /\ get_reason(S, LitVar(S.clause_db.learnts[i].lits[1])) = Lrnt(i)}

\* How often clause ci occurs in the watch list of literal l in S
OccurrencesIn(S, l, ci) ==
  Cardinality({k \in 1 .. Len(S.watches[l + 1]) : S.watches[l + 1][k] = ci})

\* Learnt clause i of S is in T as it is in S, and in the two watch lists of
\* the complements of its first two literals
RetainedIn(S, T, i) ==
  /\ i \in DOMAIN T.clause_db.learnts
  /\ T.clause_db.learnts[i] = S.clause_db.learnts[i]
  /\ \A w \in 1 .. 2 :
       OccurrencesIn(T, LitNot(S.clause_db.learnts[i].lits[w]), Lrnt(i)) >= 1

\* C21: a learnt clause that is locked when reduce_db is called is in the
\* database, unchanged, and in its two watch lists when reduce_db returns,
\* whatever its activity and the order in which the clauses are visited
C21_LockedRetained ==
  \A S \in ReduceEntries : \A o \in Orders(S) :
    \A T \in {reduce_db(S, o)} :
      /\ ~T.panic
      /\ \A i \in LockedIds(S) : RetainedIn(S, T, i)

\* reduce_db is called with six learnt clauses of which the one of lowest
\* activity is locked: it stays, and another clause is deleted
C21_Witness ==
  \E S \in ReduceEntries : \E o \in Orders(S) : \E i \in LockedIds(S) :
    /\ n_learnts(S) = 6
    /\ \A j \in DOMAIN S.clause_db.learnts :
         j # i => S.clause_db.learnts[i].act < S.clause_db.learnts[j].act
    /\ RetainedIn(S, reduce_db(S, o), i)
    /\ n_learnts(reduce_db(S, o)) < 6


(***************************************************************************)
(* Reasons that name a learnt clause.                                      *)
(***************************************************************************)
\* C22: in every reachable state the reason of an assigned variable, when
\* it names a learnt clause, names a clause that is in the database: no
\* learnt clause is deleted while it is locked
C22_NoDanglingReason ==
  pc # "panic" =>
    \A v \in ReasonedVars :
      get_reason(Cur, v).t = "Lrnt" => get_reason(Cur, v).i \in DOMAIN clause_db.learnts


(***************************************************************************)
(* What reduce_db deletes.                                                 *)
(***************************************************************************)
\* The learnt clauses of S as [id, act], sorted by ascending activity, when
\* the HashMap is visited in the given order
SortedLearnts(S, order) ==
  SortByAct([k \in 1 .. Len(order) |->
               [id |-> order[k], act |-> S.clause_db.learnts[order[k]].act]])

\* The ids that are to be deleted from S: the unlocked clauses of the lower
\* half of the sorted clauses, and the unlocked clauses of the upper half
\* whose activity is below cla_inc / |learnts|
ToDelete(S, order) ==
  {SortedLearnts(S, order)[k].id : k \in
     {k \in 1 .. Len(order) :
        /\ SortedLearnts(S, order)[k].id \notin LockedIds(S)
        /\ \/ k <= Len(order) \div 2
           \/ SortedLearnts(S, order)[k].act * Len(order) < S.clause_db.cla_inc}}

\* The ids of the learnt clauses of S that are not in T
DeletedBetween(S, T) == (DOMAIN S.clause_db.learnts) \ (DOMAIN T.clause_db.learnts)

SimplifyEntry == pc = "noconflict" /\ decision_level(Cur) = 0

HasTrueLit(S, lits) == \E k \in 1 .. Len(lits) : value_lit(S, lits[k]) = "True"

WithoutFalse(S, lits) == SelectSeq(lits, LAMBDA l : value_lit(S, l) # "False")

\* Learnt clause i of T has two literals or more, and is in the watch lists
\* of the complements of its first two
WatchedIn(T, i) ==
  /\ Len(T.clause_db.learnts[i].lits) >= 2
  /\ \A w \in 1 .. 2 :
       OccurrencesIn(T, LitNot(T.clause_db.learnts[i].lits[w]), Lrnt(i)) >= 1

\* simplify_db has taken S to T: the learnt clauses with a True literal are
\* gone, the others have lost their False literals and nothing else, and the
\* original clauses are as they were
SimplifiedTo(S, T) ==
  /\ ~T.panic
  /\ DOMAIN T.clause_db.learnts =
       {i \in DOMAIN S.clause_db.learnts : ~HasTrueLit(S, S.clause_db.learnts[i].lits)}
  /\ \A i \in DOMAIN T.clause_db.learnts :
       T.clause_db.learnts[i].lits = WithoutFalse(S, S.clause_db.learnts[i].lits)
  /\ T.clause_db.original = S.clause_db.original

\* C24: simplify_db is called at decision level 0 only; called after a
\* propagation without conflict, it deletes exactly the learnt clauses that
\* hold a True literal, removes exactly the False literals from every other
\* learnt clause, leaves the original clauses alone, and every learnt clause
\* it keeps has two literals or more, the first two being the ones whose
\* watch lists name the clause.
C24_SimplifyDb ==
  SimplifyEntry =>
    \A o \in Orders(Cur) : \A T \in {simplify_db(Cur, o)} :
      /\ SimplifiedTo(Cur, T)
      /\ \A i \in DOMAIN T.clause_db.learnts : WatchedIn(T, i)

\* The same without the part about the watch lists
C24_SimplifyDbSets ==
  SimplifyEntry =>
    \A o \in Orders(Cur) : SimplifiedTo(Cur, simplify_db(Cur, o))


(***************************************************************************)
(* The trail and its boundaries.                                           *)
(***************************************************************************)
\* The positions of the trail, counted from 0 as Vec indices
TrailPositions == 0 .. (Len(trail.trail) - 1)

TrailAt(k) == trail.trail[k + 1]

\* The number of boundaries at or below position k
BoundariesUpTo(k) ==
  Cardinality({b \in 1 .. Len(trail.trail_lim) : trail.trail_lim[b] <= k})

\* C25: between the steps of the solver the trail holds exactly one literal
\* for each assigned variable and that literal is True; an unassigned
\* variable has level -1 and no reason; the boundaries never decrease and
\* none exceeds the length of the trail; the level of an assigned variable
\* is the number of boundaries at or below its position on the trail.
C25_TrailInvariant ==
  pc # "panic" =>
    /\ \A k \in TrailPositions : value_lit(Cur, TrailAt(k)) = "True"
    /\ \A j, k \in TrailPositions : j # k => LitVar(TrailAt(j)) # LitVar(TrailAt(k))
    /\ \A v \in 0 .. (n_vars(Cur) - 1) :
         IF value(Cur, v) = "Undef"
         THEN get_level(Cur, v) = -1 /\ get_reason(Cur, v) = NoClause
         ELSE \E k \in TrailPositions :
                LitVar(TrailAt(k)) = v /\ get_level(Cur, v) = BoundariesUpTo(k)
    /\ \A b \in 1 .. Len(trail.trail_lim) :
         /\ trail.trail_lim[b] <= Len(trail.trail)
         /\ b > 1 => trail.trail_lim[b - 1] <= trail.trail_lim[b]

\* Two levels are open, the first with a decision and an implied literal,
\* the second with a decision, and some variable is unassigned
C25_Witness ==
  /\ pc \in {"propagate", "noconflict", "decide"}
  /\ Len(trail.trail_lim) = 2
  /\ trail.trail_lim[1] + 1 < trail.trail_lim[2]
  /\ trail.trail_lim[2] < Len(trail.trail)
  /\ \E v \in 0 .. (n_vars(Cur) - 1) : value(Cur, v) = "Undef"


(***************************************************************************)
(* cancel_until.                                                           *)
(***************************************************************************)
\* The variables of S that are assigned at a level above k
VarsAbove(S, k) == {v \in 0 .. (n_vars(S) - 1) : get_level(S, v) > k}

\* T is S with the levels above k undone: the trail is cut at boundary k + 1,
\* the boundaries above k are gone, the variables of the levels above k are
\* unassigned with level -1 and no reason, every other variable is as it was
UndoneTo(S, T, k) ==
  /\ ~T.panic
  /\ T.trail.trail_lim = SubSeq(S.trail.trail_lim, 1, k)
  /\ T.trail.trail = SubSeq(S.trail.trail, 1, S.trail.trail_lim[k + 1])
  /\ \A v \in 0 .. (n_vars(S) - 1) :
       IF v \in VarsAbove(S, k)
       THEN value(T, v) = "Undef" /\ get_level(T, v) = -1 /\ get_reason(T, v) = NoClause
       ELSE /\ value(T, v) = value(S, v)
            /\ get_level(T, v) = get_level(S, v)
            /\ get_reason(T, v) = get_reason(S, v)

\* Assignments, levels, reasons and trail of S and T are the same
SameAssignment(S, T) ==
  /\ T.var_manager.assigns = S.var_manager.assigns
  /\ T.var_manager.level = S.var_manager.level
  /\ T.var_manager.reason = S.var_manager.reason
  /\ T.trail = S.trail

\* The literals of S without a value
UndefLits(S) == {l \in Lits(n_vars(S)) : value_lit(S, l) = "Undef"}

\* assume(p), propagate, then cancel_until back to the level of S
RoundTrip(S, p) ==
  LET Back(r) == IF r.S.panic THEN r.S ELSE cancel_until(r.S, decision_level(S))
      Run(a) == Apply(Back, propagate(a.S))
  IN  Apply(Run, assume(S, p))

\* C26: cancel_until(k) with k below the current level pops exactly the
\* trail entries of the levels above k and the boundaries above k, makes
\* exactly the popped variables unassigned with level -1 and no reason, and
\* leaves value, level and reason of every other variable as they were;
\* a new level opened with assume, propagated and cancelled again leaves
\* assignments, levels, reasons and trail as they were before.
C26_CancelUntil ==
  pc # "panic" =>
    \A S \in {Cur} :
      /\ \A k \in 0 .. (decision_level(S) - 1) :
           \A T \in {cancel_until(S, k)} :
             /\ UndoneTo(S, T, k)
             /\ Range(SubSeq(trail.trail, Len(T.trail.trail) + 1, Len(trail.trail)))
                  = {l \in Range(trail.trail) : get_level(S, LitVar(l)) > k}
      /\ \A p \in UndefLits(S) :
           \A T \in {RoundTrip(S, p)} : ~T.panic => SameAssignment(S, T)

\* search has found a model with three levels or more open, the first
\* holding two literals or more: cancel_until(1) pops every level but the
\* first and leaves its literals, cancel_until(0) empties the trail of them
C26_Witness ==
  /\ pc = "decide"
  /\ n_assigns(Cur) = n_vars(Cur)
  /\ decision_level(Cur) >= 3
  /\ trail.trail_lim[2] >= trail.trail_lim[1] + 2
  /\ UndoneTo(Cur, cancel_until(Cur, 1), 1)
  /\ Len(cancel_until(Cur, 1).trail.trail) = trail.trail_lim[2]
  /\ UndoneTo(Cur, cancel_until(Cur, 0), 0)
  /\ Len(cancel_until(Cur, 0).trail.trail) = trail.trail_lim[1]


(***************************************************************************)
(* What analyze pops.                                                      *)
(***************************************************************************)
\* A step in which search calls analyze (solver.rs 383-388)
AnalyzeStep == pc = "conflict" /\ decision_level(Cur) # root_level

\* The literals a step takes off the trail, the last one popped first
PoppedBy == SubSeq(trail.trail, Len(trail'.trail) + 1, Len(trail.trail))

\* trail_len - trail_lim.last(), the count cancel starts from
CancelCount(tr) == Len(tr.trail) - Last(tr.trail_lim)

C27_Step ==
  /\ trail.trail_lim # <<>> => CancelCount(trail) >= 0
  /\ AnalyzeStep =>
       /\ pc' = "learn"
       /\ trail'.trail_lim = trail.trail_lim
       /\ trail'.trail = SubSeq(trail.trail, 1, Len(trail'.trail))
       /\ CancelCount(trail') >= 0
       /\ PoppedBy # <<>>
       /\ \A k \in 1 .. Len(PoppedBy) :
            /\ get_level(Cur, LitVar(PoppedBy[k])) = decision_level(Cur)
            /\ value(Cur', LitVar(PoppedBy[k])) = "Undef"
       /\ \A v \in 0 .. (n_vars(Cur) - 1) :
            value(Cur, v) # "Undef" /\ value(Cur', v) = "Undef"
              => get_level(Cur, v) = decision_level(Cur)
       /\ loc'.out_learnt[1] = LitNot(PoppedBy[1])

\* C27: analyze never pops the trail below the boundary of the current
\* decision level: when it returns the trail is no shorter than the top
\* boundary, the last literal it popped (the one whose complement is the
\* asserting literal) and every variable it unassigned were assigned at the
\* conflict level; the count from which cancel starts is never negative.
C27_AnalyzeAboveBoundary == [][C27_Step]_vars

\* analyze has returned at the second level or above and has stopped short
\* of the boundary: the decision of the conflict level is still on the trail
C27_Witness ==
  /\ pc = "learn"
  /\ decision_level(Cur) >= 2
  /\ CancelCount(trail) >= 1
  /\ value_lit(Cur, loc.out_learnt[1]) = "Undef"


(***************************************************************************)
(* The contract of enqueue.                                                *)
(***************************************************************************)
\* The reasons enqueue is called with: none, or a clause of the database
ReasonInputs ==
  {NoClause} \cup {Orig(i - 1) : i \in 1 .. Len(clause_db.original)}
             \cup {Lrnt(i) : i \in DOMAIN clause_db.learnts}

\* e is what the contract allows enqueue(l, from) to return in state S
EnqueueContract(S, l, from, e) ==
  IF value_lit(S, l) = "True" THEN e.ok /\ e.S = S
  ELSE IF value_lit(S, l) = "False" THEN ~e.ok /\ e.S = S
  ELSE /\ e.ok
       /\ ~e.S.panic
       /\ value_lit(e.S, l) = "True"
       /\ get_level(e.S, LitVar(l)) = decision_level(S)
       /\ get_reason(e.S, LitVar(l)) = from
       /\ e.S.trail.trail = Append(S.trail.trail, l)
       /\ e.S.trail.trail_lim = S.trail.trail_lim
       /\ e.S.prop_q = Append(S.prop_q, l)
       /\ \A v \in 0 .. (n_vars(S) - 1) :
            v # LitVar(l) =>
              /\ value(e.S, v) = value(S, v)
              /\ get_level(e.S, v) = get_level(S, v)
              /\ get_reason(e.S, v) = get_reason(S, v)

\* C28: enqueue(l, reason) on a True literal returns success and changes
\* nothing; on a False literal it returns failure and changes nothing; on a
\* literal without a value it makes the literal True, sets the level of its
\* variable to the current decision level and its reason to the reason
\* given, appends the literal to the trail and to the propagation queue,
\* and returns success.
C28_EnqueueContract ==
  pc # "panic" =>
    \A S \in {Cur} : \A l \in Lits(n_vars(S)) : \A from \in ReasonInputs :
      \A e \in {enqueue(S, l, from)} : EnqueueContract(S, l, from, e)

\* At the second level or above there are a True, a False and an unassigned
\* literal, and enqueue with a clause as reason assigns the last of them
C28_Witness ==
  /\ pc # "panic"
  /\ decision_level(Cur) >= 2
  /\ \E l \in Lits(n_vars(Cur)) : \E from \in ReasonInputs \ {NoClause} :
       /\ value_lit(Cur, l) = "Undef"
       /\ enqueue(Cur, l, from).ok
       /\ get_level(enqueue(Cur, l, from).S, LitVar(l)) = decision_level(Cur)
       /\ get_reason(enqueue(Cur, l, from).S, LitVar(l)) = from
       /\ Last(enqueue(Cur, l, from).S.prop_q) = l
  /\ \E l \in Lits(n_vars(Cur)) :
       /\ value_lit(Cur, l) = "True"
       /\ enqueue(Cur, l, NoClause) = [ok |-> TRUE, S |-> Cur]
       /\ enqueue(Cur, LitNot(l), NoClause) = [ok |-> FALSE, S |-> Cur]


(***************************************************************************)
(* A conflict found by propagate.                                          *)
(***************************************************************************)
\* The states on which the next step of the solver calls propagate: the head
\* of the loop of search, the loop over the assumptions after a successful
\* assume, and simplify_db
PropagateEntries ==
  IF pc = "propagate" \/ (pc = "noconflict" /\ decision_level(Cur) = 0) THEN {Cur}
  ELSE IF pc = "assume" /\ loc.assumps # <<>>
  THEN {a.S : a \in {a \in {assume(Cur, Head(loc.assumps))} : a.ok}}
  ELSE {}

\* The literal propagate is processing when it finds its conflict, and the
\* snapshot tmp it took of the watch list of that literal
RECURSIVE ConflictPoint(_)
ConflictPoint(S) ==
  LET Step(pl, tmp) ==
        LET Done(r) ==
              IF r.S.panic \/ r.confl # NoClause THEN [p |-> pl, tmp |-> tmp]
              ELSE ConflictPoint(r.S)
        IN  Apply(Done, PropagateWatchers(
                          [S EXCEPT !.prop_q = Front(@), !.watches[pl + 1] = <<>>],
                          pl, tmp, 1))
  IN  Apply2(Step, Last(S.prop_q), S.watches[Last(S.prop_q) + 1])

\* Clause ci of T has l in one of its first two positions
WatchesLit(T, ci, l) ==
  \E w \in 1 .. 2 : w <= Len(get_clause_lits(T, ci)) /\ get_clause_lits(T, ci)[w] = l

\* The watch list w of p after the conflict holds, from the snapshot tmp, the
\* conflict clause and everything after it in their order, and before them
\* every clause processed earlier that still watches the complement of p
NoWatchLost(T, p, tmp, confl) ==
  \E i \in 1 .. Len(tmp) :
    \E w \in {T.watches[p + 1]} : \E n \in {Len(tmp) - i + 1} :
      /\ tmp[i] = confl
      /\ Len(w) >= n
      /\ SubSeq(w, Len(w) - n + 1, Len(w)) = SubSeq(tmp, i, Len(tmp))
      /\ \A j \in 1 .. (i - 1) :
           WatchesLit(T, tmp[j], LitNot(p))
             => tmp[j] \in Range(SubSeq(w, 1, Len(w) - n))

\* C29: when propagate returns a conflict found while it processes literal
\* p, every literal of the clause returned is False, the propagation queue
\* is empty, and the watch list of p holds again every clause of its
\* snapshot that still watches the complement of p: the clauses processed
\* before the conflict that kept their watch, the conflict clause, and all
\* the clauses not yet processed.
C29_ConflictReturn ==
  \A S \in PropagateEntries : \A r \in {propagate(S)} :
    ~r.S.panic /\ r.confl # NoClause =>
      /\ HasClause(r.S, r.confl)
      /\ \A l \in Range(get_clause_lits(r.S, r.confl)) : value_lit(r.S, l) = "False"
      /\ r.S.prop_q = <<>>
      /\ \A c \in {ConflictPoint(S)} : NoWatchLost(r.S, c.p, c.tmp, r.confl)

\* propagate finds its conflict in the second of three or more clauses of a
\* snapshot: a clause before it and a clause after it are in the watch list
\* again
C29_Witness ==
  \E S \in PropagateEntries : \E r \in {propagate(S)} :
    /\ ~r.S.panic
    /\ r.confl # NoClause
    /\ \E c \in {ConflictPoint(S)} :
         /\ Len(c.tmp) >= 3
         /\ c.tmp[1] # r.confl
         /\ Last(c.tmp) # r.confl
         /\ NoWatchLost(r.S, c.p, c.tmp, r.confl)
         /\ Len(r.S.watches[c.p + 1]) >= 3


(***************************************************************************)
(* The propagation queue.                                                  *)
(***************************************************************************)
\* The literals whose watch list propagate inspects when called on S: each
\* literal it pops, the one at which it finds a conflict included
RECURSIVE InspectedIn(_)
InspectedIn(S) ==
  LET Step(pl) ==
        LET Done(r) ==
              IF r.S.panic \/ r.confl # NoClause THEN {pl}
              ELSE {pl} \cup InspectedIn(r.S)
        IN  Apply(Done, PropagateWatchers(
                          [S EXCEPT !.prop_q = Front(@), !.watches[pl + 1] = <<>>],
                          pl, S.watches[pl + 1], 1))
  IN  IF S.prop_q = <<>> THEN {} ELSE Apply(Step, Last(S.prop_q))

\* The literals whose watch list the next step of the solver inspects
InspectedNow == UNION {InspectedIn(S) : S \in PropagateEntries}

\* The literals that a step leaves True on the trail and outside the queue,
\* and that were in the queue or not on the trail before it
LeftQueue ==
  {l \in Range(trail'.trail) :
     /\ l \notin Range(prop_q')
     /\ l \in Range(prop_q) \/ l \notin Range(trail.trail)}

C30_Step ==
  pc' # "panic" =>
    /\ \A l \in Range(prop_q') :
         value_lit(Cur', l) = "True" /\ l \in Range(trail'.trail)
    /\ LeftQueue \subseteq InspectedNow

\* C30: in every reachable state every literal in the propagation queue is
\* True and on the trail, and every True literal on the trail that is not
\* in the queue has had its watch list inspected: no step takes a literal
\* out of the queue, or assigns one without queueing it, and leaves it on
\* the trail, unless propagate has inspected the watch list of that literal
\* in this step.
C30_QueueInvariant == [][C30_Step]_vars

\* The first half of the claim alone: what is in the queue is True and on
\* the trail
C30_QueueLiterals ==
  pc # "panic" =>
    \A l \in Range(prop_q) : value_lit(Cur, l) = "True" /\ l \in Range(trail.trail)


(***************************************************************************)
(* The variable select_var picks.                                          *)
(***************************************************************************)
\* The states in which search asks select_var for a decision variable
\* (solver.rs 410-424)
DecisionEntry ==
  /\ pc = "decide"
  /\ n_assigns(Cur) # n_vars(Cur)
  /\ loc.conflit_count < NofConflicts(loc.k)

\* The score select_var compares: VSIDS activity or LRB ema
ScoreOf(S, v) ==
  IF S.var_manager.stats.bh = "Vsids" THEN S.var_manager.stats.activity[v + 1]
  ELSE S.var_manager.stats.ema[v + 1]

UndefVars(S) == {v \in 0 .. (n_vars(S) - 1) : value(S, v) = "Undef"}

\* The unassigned variables of maximal score
MaxScoreVars(S) ==
  {v \in UndefVars(S) : \A u \in UndefVars(S) : ScoreOf(S, u) <= ScoreOf(S, v)}

\* C31: select_var returns an unassigned variable whose score is maximal
\* among the unassigned variables, and of several such variables it returns
\* the one of lowest index.
C31_SelectVar ==
  DecisionEntry =>
    \A v \in {select_var(Cur)} :
      /\ v \in MaxScoreVars(Cur)
      /\ \A u \in MaxScoreVars(Cur) : v <= u

\* The same without the tie-break: the variable returned is unassigned and
\* of maximal score
C31_SelectVarMax == DecisionEntry => select_var(Cur) \in MaxScoreVars(Cur)

\* What the code does with a tie: the variable of highest index is returned
C31_SelectVarLast ==
  DecisionEntry => \A u \in MaxScoreVars(Cur) : u <= select_var(Cur)


(***************************************************************************)
(* Decisions.                                                              *)
(***************************************************************************)
\* The control points of search
InSearch == pc \in {"propagate", "conflict", "learn", "noconflict", "decide"}

\* The levels search has opened, those above the levels of the assumptions
DecisionLevels == (root_level + 1) .. Len(trail.trail_lim)

\* A step of search that opens a level
OpensLevel == InSearch /\ Len(trail'.trail_lim) > Len(trail.trail_lim)

C32_Step ==
  /\ OpensLevel =>
       /\ DecisionEntry
       /\ loc.confl = NoClause
       /\ \E v \in UndefVars(Cur) :
            /\ trail'.trail_lim = Append(trail.trail_lim, Len(trail.trail))
            /\ trail'.trail = Append(trail.trail, LitNew(v, FALSE))
            /\ prop_q' = Append(prop_q, LitNew(v, FALSE))
            /\ value(Cur', v) = "True"
            /\ get_reason(Cur', v) = NoClause
            /\ get_level(Cur', v) = decision_level(Cur) + 1
            /\ get_level(Cur', v) > root_level
  /\ DecisionEntry => OpensLevel
  /\ InSearch =>
       \A b \in DecisionLevels :
         trail.trail_lim[b] < Len(trail.trail) =>
           \A l \in {trail.trail[trail.trail_lim[b] + 1]} :
             /\ ~LitSign(l)
             /\ get_reason(Cur, LitVar(l)) = NoClause
             /\ get_level(Cur, LitVar(l)) = b

\* C32: search decides only after a propagation without conflict, with a
\* variable left unassigned and the budget of conflicts not used up; the
\* decision opens exactly one level and enqueues, with no reason, the
\* positive literal of a variable that is unassigned; the variable of every
\* decision has a level above the root level and is the first trail entry
\* of that level.
C32_Decision == [][C32_Step]_vars

\* Above one level of assumptions search has decided twice, and the second
\* decision is not the last literal of the trail
C32_Witness ==
  /\ InSearch
  /\ root_level = 1
  /\ Len(trail.trail_lim) = 3
  /\ trail.trail_lim[2] < trail.trail_lim[3]
  /\ trail.trail_lim[3] + 1 < Len(trail.trail)

(***************************************************************************)
(* Restarts.                                                               *)
(***************************************************************************)
\* A step by which a call of search returns Undef and the next call begins
RestartStep == InSearch /\ pc' \in {"propagate"} /\ loc'.k # loc.k

\* The budget of conflicts of search call number k, counted from 0
RECURSIVE Budget(_)
Budget(k) == IF k = 0 THEN 100 ELSE 2 * Budget(k - 1)

\* The length of the trail below the first level search has opened
RootBoundary ==
  IF Len(trail.trail_lim) = root_level THEN Len(trail.trail)
  ELSE trail.trail_lim[root_level + 1]

C33_Step ==
  /\ RestartStep =>
       /\ pc = "decide"
       /\ prop_q = <<>>
       /\ loc.confl = NoClause
       /\ loc.conflit_count >= Budget(loc.k)
       /\ loc'.k = loc.k + 1
       /\ loc'.conflit_count = 0
       /\ Len(trail'.trail_lim) = root_level
       /\ root_level' = root_level
       /\ trail'.trail_lim = SubSeq(trail.trail_lim, 1, root_level)
       /\ trail'.trail = SubSeq(trail.trail, 1, RootBoundary)
       /\ \A i \in 1 .. RootBoundary :
            \A v \in {LitVar(trail.trail[i])} :
              /\ value(Cur', v) = value(Cur, v)
              /\ value(Cur, v) # "Undef"
              /\ get_level(Cur', v) = get_level(Cur, v)
              /\ get_reason(Cur', v) = get_reason(Cur, v)
       /\ clause_db'.learnts = clause_db.learnts
       /\ clause_db'.original = clause_db.original
  /\ (pc = "decide" /\ n_assigns(Cur) # n_vars(Cur)
        /\ loc.conflit_count >= Budget(loc.k)) => RestartStep

TrailPos(S, l) ==
  IF l \in Range(S.trail.trail)
  THEN CHOOSE i \in 1 .. Len(S.trail.trail) : S.trail.trail[i] = l
  ELSE 0

\* The literal of the queue of S enqueued last
MostRecent(S) ==
  CHOOSE l \in Range(S.prop_q) :
    \A m \in Range(S.prop_q) : TrailPos(S, m) <= TrailPos(S, l)

\* The clauses rest of a watch list taken off the list of p are inspected
\* from the first on; at a conflict the clauses not inspected go back to the
\* list and the queue is emptied
RECURSIVE InStoredOrder(_, _, _)
InStoredOrder(S, p, rest) ==
  LET Done(r) ==
        IF r.S.panic THEN [confl |-> NoClause, S |-> r.S]
        ELSE IF ~r.ok
        THEN [confl |-> Head(rest),
              S |-> [r.S EXCEPT !.watches[p + 1] = @ \o Tail(rest), !.prop_q = <<>>]]
        ELSE InStoredOrder(r.S, p, Tail(rest))
  IN  IF rest = <<>> THEN [confl |-> NoClause, S |-> S]
      ELSE Apply(Done, clause_propagate(S, Head(rest), p))

\* Propagation that always takes the literal enqueued last and inspects its
\* watch list in stored order.  busy counts the literals taken from a queue
\* of several literals with a watch list of several clauses
RECURSIVE LifoRun(_, _)
LifoRun(S, busy) ==
  LET Pop(p) ==
        LET b == IF Len(S.prop_q) >= 2 /\ Len(S.watches[p + 1]) >= 2
                 THEN busy + 1 ELSE busy
            Done(r) ==
              IF r.S.panic \/ r.confl # NoClause
              THEN [confl |-> r.confl, S |-> r.S, busy |-> b]
              ELSE LifoRun(r.S, b)
        IN  Apply(Done, InStoredOrder(
                          [S EXCEPT !.prop_q = SelectSeq(@, LAMBDA m : m # p),
                                    !.watches[p + 1] = <<>>],
                          p, S.watches[p + 1]))
  IN  IF S.prop_q = <<>> THEN [confl |-> NoClause, S |-> S, busy |-> busy]
      ELSE Apply(Pop, MostRecent(S))

\* C34: propagate always takes the literal enqueued last among those not
\* yet propagated and inspects the clauses of its watch list in the order
\* in which the list stores them: every call of propagate ends as the
\* propagation that does so ends.
C34_ProcessingOrder ==
  \A S \in PropagateEntries :
    \A r \in {propagate(S)} :
      \A f \in {LifoRun(S, 0)} : r.confl = f.confl /\ r.S = f.S

\* propagate is called and twice takes a literal from a queue of several
\* literals whose watch list holds several clauses
C34_Witness ==
  \E S \in PropagateEntries : LifoRun(S, 0).busy >= 2

(***************************************************************************)
(* The ids of the learnt clauses.                                          *)
(***************************************************************************)
\* The ids of the learnt clauses stored
LearntIds == DOMAIN clause_db.learnts

\* The ids handed out so far that no longer refer to a clause
DeletedLearntIds == (0 .. (clause_db.curr_learnt_id - 1)) \ LearntIds

C35_Step ==
  /\ LearntIds \subseteq 0 .. (clause_db.curr_learnt_id - 1)
  /\ clause_db'.curr_learnt_id >= clause_db.curr_learnt_id
  /\ \A i \in LearntIds' \ LearntIds :
       /\ i >= clause_db.curr_learnt_id
       /\ i < clause_db'.curr_learnt_id
       /\ \A j \in LearntIds : j < i
  /\ Cardinality(LearntIds' \ LearntIds)
       = clause_db'.curr_learnt_id - clause_db.curr_learnt_id
  /\ DeletedLearntIds \subseteq DeletedLearntIds'
  /\ \A i \in LearntIds \cap LearntIds' :
       \A old \in {Range(clause_db.learnts[i].lits)} :
         \A new \in {Range(clause_db'.learnts[i].lits)} :
           /\ new \subseteq old
           /\ \A l \in old \ new :
                value_lit(Cur', l) = "False" /\ get_level(Cur', LitVar(l)) = 0

\* C35: the ids of the learnt clauses are stable and never used twice: an
\* id handed out by add_learnt is greater than every id handed out before,
\* the id of a deleted clause is not handed out again, and while other
\* clauses are stored and deleted an id keeps referring to its clause: the
\* literals under it are those stored, less the literals simplify_db
\* dropped as false at level 0.
C35_StableIds == [][C35_Step]_vars

\* Ids have been deleted below ids that are still stored, the last id
\* handed out among them
C35_Witness ==
  /\ (clause_db.curr_learnt_id - 1) \in LearntIds
  /\ \E i \in DeletedLearntIds : \E j \in LearntIds : i < j
  /\ \E i \in DeletedLearntIds : \E j \in LearntIds : j < i

(***************************************************************************)
(* The original clauses.                                                   *)
(***************************************************************************)
\* Sequence s lists its literals by ascending index, as clause_new stores an
\* original clause
Ascending(s) == \A i, j \in 1 .. Len(s) : i < j => s[i] < s[j]

C36_Step ==
  /\ n_clauses(Cur') >= n_clauses(Cur)
  /\ \A i \in 1 .. n_clauses(Cur) :
       /\ Len(clause_db'.original[i]) = Len(clause_db.original[i])
       /\ Range(clause_db'.original[i]) = Range(clause_db.original[i])
  /\ \A i \in (n_clauses(Cur) + 1) .. n_clauses(Cur') :
       Ascending(clause_db'.original[i])

\* C36: the original clauses are permanent: n_clauses never decreases, no
\* step removes an original clause, and the set of literals of a stored
\* original clause never changes; propagation only permutes its literals.
C36_OriginalsPermanent == [][C36_Step]_vars

\* Learnt clauses have been deleted, and of the original clauses, all still
\* stored, two of three literals or more are no longer in the order in
\* which they were stored
C36_Witness ==
  /\ DeletedLearntIds # {}
  /\ \E i, j \in 1 .. n_clauses(Cur) :
       /\ i # j
       /\ Len(clause_db.original[i]) >= 3 /\ ~Ascending(clause_db.original[i])
       /\ Len(clause_db.original[j]) >= 3 /\ ~Ascending(clause_db.original[j])

(***************************************************************************)
(* What add_clause stores.                                                 *)
(***************************************************************************)
\* The literals of lits that are Undef now: lits without its repetitions and
\* without the literals that are False
KeptLits(lits) == {l \in Range(lits) : value_lit(Cur, l) = "Undef"}

\* The step stores no clause, registers no watch and enqueues nothing
StoresNothing ==
  UNCHANGED <<clause_db, watches, var_manager, trail, prop_q>>

\* The step enqueues l at level 0 with no reason and stores no clause
EnqueuesUnit(l) ==
  /\ decision_level(Cur) = 0
  /\ trail' = [trail EXCEPT !.trail = Append(@, l)]
  /\ prop_q' = Append(prop_q, l)
  /\ value_lit(Cur', l) = "True"
  /\ get_level(Cur', LitVar(l)) = 0
  /\ get_reason(Cur', LitVar(l)) = NoClause
  /\ \A v \in (0 .. (n_vars(Cur) - 1)) \ {LitVar(l)} : value(Cur', v) = value(Cur, v)
  /\ UNCHANGED <<clause_db, watches, undef_state>>

\* The step stores one original clause of the literals kept and watches its
\* first two literals
StoresClause(kept) ==
  /\ n_clauses(Cur') = n_clauses(Cur) + 1
  /\ SubSeq(clause_db'.original, 1, n_clauses(Cur)) = clause_db.original
  /\ clause_db'.learnts = clause_db.learnts
  /\ \A c \in {clause_db'.original[n_clauses(Cur) + 1]} :
       /\ Range(c) = kept
       /\ Len(c) = Cardinality(kept)
       /\ \A i, j \in 1 .. Len(c) : i # j => c[i] # c[j] /\ c[i] # LitNot(c[j])
       /\ \A i \in 1 .. Len(c) : value_lit(Cur', c[i]) = "Undef"
       /\ \A w \in 1 .. Len(watches) :
            watches'[w] =
              IF w \in {LitNot(c[1]) + 1, LitNot(c[2]) + 1}
              THEN Append(watches[w], Orig(n_clauses(Cur)))
              ELSE watches[w]
  /\ UNCHANGED <<var_manager, trail, prop_q, undef_state>>

C37_Step ==
  \A lits \in ClauseInputs(Len(var_manager.assigns)) :
    (AddClause(lits) /\ ~Tautological(lits) /\ ~HoldsTrueLit(lits)) =>
      \A kept \in {KeptLits(lits)} :
        IF kept = {} THEN undef_state' /\ StoresNothing
        ELSE IF Cardinality(kept) = 1 THEN \A l \in kept : EnqueuesUnit(l)
        ELSE StoresClause(kept)

\* C37: add_clause of a clause that is neither satisfied nor a tautology
\* removes the repeated literals and the literals that are False; with
\* nothing left the solver enters undef_state; one literal left is enqueued
\* at level 0 with no reason and no clause is stored; otherwise exactly one
\* original clause is stored, of pairwise distinct literals without a
\* complementary pair, all Undef, with watches on its first two literals.
C37_AddClause == [][C37_Step]_vars

\* A clause was stored without its false literal, and the clause with a
\* repeated literal and a false one was reduced to a unit and enqueued
C37_Witness ==
  /\ pc = "idle" /\ ~undef_state
  /\ \E i \in 1 .. n_clauses(Cur) : Range(clause_db.original[i]) \notin hist.added
  /\ {1, 3} \in hist.added
  /\ trail.trail = <<2, 1>>

(***************************************************************************)
(* The Delete events of the DRAT log.                                      *)
(***************************************************************************)
\* The positions of the log with the Add of a clause and with a Delete
DratAdds == {i \in 1 .. Len(DratLog) : DratLog[i].kind = "Add"}
DratDeletes == {i \in 1 .. Len(DratLog) : DratLog[i].kind = "Delete"}

\* Each Delete event is matched with an Add event of its own that stands
\* earlier in the log and has the same set of literals or, when exact is
\* FALSE, a set that holds the literals deleted
DeletesMatch(exact) ==
  \E f \in [DratDeletes -> DratAdds] :
    /\ \A i, j \in DratDeletes : i # j => f[i] # f[j]
    /\ \A i \in DratDeletes :
         /\ f[i] < i
         /\ Range(DratLog[i].lits) \subseteq Range(DratLog[f[i]].lits)
         /\ exact => Range(DratLog[i].lits) = Range(DratLog[f[i]].lits)

\* C38: with DRAT capture enabled every Delete event carries the set of
\* literals of an earlier Add event of a learnt clause that has not been
\* deleted yet.
C38_DeletesMatchAdds == drat_clauses.capture_drat => DeletesMatch(TRUE)

\* What the code keeps: the literals of a Delete event are among those of an
\* earlier Add event of a clause not deleted yet
C38_DeletesWithinAdds == drat_clauses.capture_drat => DeletesMatch(FALSE)

(***************************************************************************)
(* The counters of LRB.                                                    *)
(***************************************************************************)
\* The LRB statistics of the variable manager
Lrb == var_manager.stats

\* The variables a step finds Undef and leaves assigned
NewlyAssigned ==
  {v \in 0 .. (n_vars(Cur) - 1) : value(Cur, v) = "Undef" /\ value(Cur', v) # "Undef"}

\* The counters are in step: no variable was assigned after the count of
\* analyses reached now, and an assigned variable took part in no more
\* analyses than there were since it was assigned
CountersInStep ==
  \A v \in 0 .. (n_vars(Cur) - 1) :
    /\ Lrb.assigned[v + 1] <= Lrb.learnt_counter
    /\ value(Cur, v) # "Undef" =>
         Lrb.participated[v + 1] <= Lrb.learnt_counter - Lrb.assigned[v + 1]

C39_Step ==
  Lrb.bh = "Lrb" =>
    /\ Lrb'.learnt_counter = IF AnalyzeStep THEN Lrb.learnt_counter + 1
                             ELSE Lrb.learnt_counter
    /\ \A v \in NewlyAssigned :
         /\ Lrb'.assigned[v + 1] = Lrb'.learnt_counter
         /\ Lrb'.participated[v + 1] = 0
         /\ Lrb'.reasoned[v + 1] = 0
    /\ CountersInStep

\* C39: the counters of LRB: learnt_counter goes up by exactly 1 with each
\* conflict analysis and never goes down; assigning a variable sets its
\* assigned to learnt_counter and its participated and reasoned to 0; so
\* assigned[v] <= learnt_counter always, and for every assigned variable
\* participated[v] <= learnt_counter - assigned[v].
C39_LrbCounters == [][C39_Step]_vars

\* After two analyses or more a variable that was assigned after the first
\* is assigned still and has taken part in an analysis since
C39_Witness ==
  /\ Lrb.bh = "Lrb"
  /\ Lrb.learnt_counter >= 2
  /\ \E v \in 0 .. (n_vars(Cur) - 1) :
       /\ value(Cur, v) # "Undef"
       /\ Lrb.assigned[v + 1] >= 1
       /\ Lrb.participated[v + 1] >= 1

(***************************************************************************)
(* Literals.                                                               *)
(***************************************************************************)
\* The literals over the variables the solver has now
SolverLits == Lits(n_vars(Cur))

\* C40: the literal 2v + s of variable v and sign s has var v and sign s;
\* negation flips the sign bit only: the negation of the negation of l is
\* l, it has the variable of l and it differs from l; under the assignment
\* of every state the value of the negation of l is the negation of the
\* value of l, Undef being its own negation.
C40_LiteralAlgebra ==
  /\ \A v \in 0 .. (n_vars(Cur) - 1) : \A s \in BOOLEAN :
       \A l \in {LitNew(v, s)} :
         /\ l = 2 * v + (IF s THEN 1 ELSE 0)
         /\ l \in SolverLits
         /\ LitVar(l) = v
         /\ LitSign(l) = s
  /\ \A l \in SolverLits :
       /\ l = LitNew(LitVar(l), LitSign(l))
       /\ LitNot(LitNot(l)) = l
       /\ LitVar(LitNot(l)) = LitVar(l)
       /\ LitSign(LitNot(l)) = ~LitSign(l)
       /\ LitNot(l) # l
       /\ value_lit(Cur, l) = IF LitSign(l) THEN LBoolNot(value(Cur, LitVar(l)))
                              ELSE value(Cur, LitVar(l))
       /\ \A b \in {value_lit(Cur, l)} : \A nb \in {value_lit(Cur, LitNot(l))} :
            /\ b = "True" => nb = "False"
            /\ b = "False" => nb = "True"
            /\ b = "Undef" => nb = "Undef"

\* Of the positive literals of the solver one is True, one False and one
\* Undef
C40_Witness ==
  \E a, b, c \in 0 .. (n_vars(Cur) - 1) :
    /\ value_lit(Cur, LitNew(a, FALSE)) = "True"
    /\ value_lit(Cur, LitNew(b, FALSE)) = "False"
    /\ value_lit(Cur, LitNew(c, FALSE)) = "Undef"

=============================================================================
